---------------------------- MODULE Spec2Model ----------------------------
(***************************************************************************)
(* A model of src/markdown_render/render.py: the inline transform pipeline *)
(* (render_inline) and the block-level parser (class MarkdownRenderer).    *)
(*                                                                         *)
(* Text is a sequence of one-character strings.  Markup that the renderer  *)
(* emits (tags with their style attribute, HTML entities, base64 payloads) *)
(* is kept as multi-character elements, split so that every character that *)
(* one of the renderer's regular expressions treats specially is an        *)
(* element of its own: the regular expressions therefore see emitted       *)
(* markup exactly as the Python code does.                                 *)
(***************************************************************************)
EXTENDS Integers, Sequences, FiniteSets, TLC

VARIABLES
    lines,      \* self.lines: the document, a sequence of lines
    pos,        \* self.pos: the cursor
    output,     \* self.output: the fragments appended so far
    pc,         \* where the running renderer is: "blocks", a parser, "done", "crash"
    loc,        \* the locals of the running parser (and of the collect helper)
    stack,      \* suspended outer renderers (a blockquote rendering its nested text)
    src,        \* history: for every fragment of output, [kind, from, to)
    starts,     \* history: every hand-off of the dispatcher to a block parser
    text,       \* render_inline's local `text`, between two of its steps
    step,       \* the number of inline steps applied to text so far
    reused      \* history: render was called before on this renderer

vars == <<lines, pos, output, pc, loc, stack, src, starts, text, step, reused>>

-----------------------------------------------------------------------------
(* Bounds of the model. *)

\* the longest document, in lines
MaxLines == 3
\* the longest text handed to the inline pipeline, in characters
MaxLen == 5

-----------------------------------------------------------------------------
(* Characters and strings. *)

\* what str.strip() removes and what \s matches, among the model's characters
WS == {" ", "\t", "\r", "\n"}

Digits == {"0", "1", "2", "3", "4", "5", "6", "7", "8", "9"}

\* \w (letters, digits, underscore), among the model's characters
WordChars == Digits \cup {"a", "b", "c", "d", "e", "h", "i", "m", "r", "x", "y", "_"}

\* the character U+0060 (grave accent), which opens and closes a code span and,
\* three times, a code fence; the lexer of TLA+ takes no grave accent in a
\* string, so the model writes the character as a circumflex
Backtick == "^"

Min(a, b) == IF a <= b THEN a ELSE b

Drop(s, n) == SubSeq(s, n + 1, Len(s))

Take(s, n) == SubSeq(s, 1, Min(n, Len(s)))

\* the length of the longest prefix of s whose characters are all in set
RECURSIVE RunLen(_, _)
RunLen(s, set) ==
    IF s # <<>> /\ Head(s) \in set THEN 1 + RunLen(Tail(s), set) ELSE 0

RECURSIVE Reverse(_)
Reverse(s) == IF s = <<>> THEN <<>> ELSE Append(Reverse(Tail(s)), Head(s))

\* str.lstrip(), str.rstrip(), str.strip()
LStrip(s) == Drop(s, RunLen(s, WS))
RStrip(s) == Take(s, Len(s) - RunLen(Reverse(s), WS))
Strip(s) == RStrip(LStrip(s))

\* str.strip('|')
StripPipes(s) ==
    LET l == Drop(s, RunLen(s, {"|"}))
    IN  Take(l, Len(l) - RunLen(Reverse(l), {"|"}))

\* str.startswith(p)
StartsWith(s, p) == Len(s) >= Len(p) /\ SubSeq(s, 1, Len(p)) = p

\* is p the part of s that starts at index i
At(s, i, p) == i >= 1 /\ i + Len(p) - 1 <= Len(s) /\ SubSeq(s, i, i + Len(p) - 1) = p

\* the first index >= i where s has character c, or 0
RECURSIVE IndexOf(_, _, _)
IndexOf(s, c, i) ==
    IF i > Len(s) THEN 0
    ELSE IF s[i] = c THEN i
    ELSE IndexOf(s, c, i + 1)

\* sep.join(parts), for sequences of texts
RECURSIVE Join(_, _)
Join(parts, sep) ==
    IF parts = <<>> THEN <<>>
    ELSE IF Len(parts) = 1 THEN parts[1]
    ELSE parts[1] \o sep \o Join(Tail(parts), sep)

\* str.split(c): the parts of s between the occurrences of character c
RECURSIVE Split(_, _)
Split(s, c) ==
    LET k == IndexOf(s, c, 1)
    IN  IF k = 0 THEN <<s>>
        ELSE <<SubSeq(s, 1, k - 1)>> \o Split(Drop(s, k), c)

\* all the elements of a text as one opaque string
RECURSIVE Flat(_)
Flat(s) == IF s = <<>> THEN "" ELSE Head(s) \o Flat(Tail(s))

-----------------------------------------------------------------------------
(* The style table (STYLES) and the markup of the inline elements. *)

STYLES_codespan ==
    <<"font-size: 90%; color: #d14; background: rgba", "(", "27, 31, 35, 0.05", ")",
      "; padding: 3px 5px; border-radius: 4px;">>

STYLES_img ==
    <<"display: block; max-width: 100%; margin: 0.1em auto 0.5em; border-radius: 8px; border: 1px solid rgba",
      "(", "0, 0, 0, 0.04", ")", ";">>

STYLES_figcaption == <<"text-align: center; color: #888; font-size: 0.8em;">>

STYLES_link == <<"color: #576b95; text-decoration: none;">>

STYLES_strong == <<"color: #FA5151; font-weight: bold; font-size: inherit;">>

STYLES_em == <<"font-style: italic; font-size: inherit;">>

\* the elements of emitted markup that html.escape leaves as they are
PlainChunks == {"27, 31, 35, 0.05", "0, 0, 0, 0.04"}

\* html.escape (quote=True), character by character; an element of emitted
\* markup holding characters that are escaped becomes its escaped form
escapeChar(c) ==
    CASE c = "&" -> "&amp;"
      [] c = "<" -> "&lt;"
      [] c = ">" -> "&gt;"
      [] c = "\"" -> "&quot;"
      [] c = "'" -> "&#x27;"
      [] Len(c) > 1 /\ c \notin PlainChunks -> "escaped{" \o c \o "}"
      [] OTHER -> c

escape(s) == [i \in DOMAIN s |-> escapeChar(s[i])]

\* str.replace(old, new) for a one-character old
ReplaceChar(s, old, new) == [i \in DOMAIN s |-> IF s[i] = old THEN new ELSE s[i]]

\* base64.b64encode(formula): an injective encoding with none of the
\* characters of formula left visible
b64encode(formula) == "base64{" \o Flat(formula) \o "}"

-----------------------------------------------------------------------------
(* render_inline: eight re.sub passes, each leftmost-first over the whole   *)
(* text.  XxxEnd(s, i) is the index of the last character of the match of   *)
(* the pass's pattern that starts at index i of s, or 0 when none does.     *)

\* the length of the longest run of characters other than c from index i on
RECURSIVE RunNot(_, _, _)
RunNot(s, i, c) == IF i <= Len(s) /\ s[i] # c THEN 1 + RunNot(s, i + 1, c) ELSE 0

CharAt(s, i) == IF i >= 1 /\ i <= Len(s) THEN s[i] ELSE ""

\* delim (.+?) delim: the start of the first closing delim after a
\* non-empty content that starts at k and holds no newline, or 0
RECURSIVE LazyClose(_, _, _, _)
LazyClose(s, k, j, delim) ==
    IF j + Len(delim) - 1 > Len(s) \/ s[j - 1] = "\n" THEN 0
    ELSE IF At(s, j, delim) THEN j
    ELSE LazyClose(s, k, j + 1, delim)

\* delim(.+?)delim at i: the start of the closing delim, or 0
DelimClose(s, i, delim) ==
    IF At(s, i, delim) /\ i + Len(delim) <= Len(s)
    THEN LazyClose(s, i + Len(delim), i + Len(delim) + 1, delim)
    ELSE 0

\* (?<!c)c([^c]+?)c(?!c) at i: the index of the closing c, or 0
SingleClose(s, i, c) ==
    LET r == RunNot(s, i + 1, c)
    IN  IF CharAt(s, i) = c /\ CharAt(s, i - 1) # c /\ r >= 1
           /\ CharAt(s, i + r + 1) = c /\ CharAt(s, i + r + 2) # c
        THEN i + r + 1
        ELSE 0

\* Backtick, one or more characters other than Backtick, Backtick
CodeEnd(s, i) ==
    LET r == RunNot(s, i + 1, Backtick)
    IN  IF CharAt(s, i) = Backtick /\ r >= 1 /\ CharAt(s, i + r + 1) = Backtick
        THEN i + r + 1
        ELSE 0

replace_code(group1) ==
    <<"<code style=\"">> \o STYLES_codespan \o <<"\">">>
    \o ReplaceChar(escape(group1), "$", "&#36;") \o <<"</code>">>

\* \[([^\]]+)\]\(([^)]+)\) at i, with minLabel = 1; the image pattern
\* !\[([^\]]*)\]\(([^)]+)\) is "!" followed by the same with minLabel = 0.
\* The result is <<index of "]", index of ")">>, or <<0, 0>>.
BracketParen(s, i, minLabel) ==
    LET a == RunNot(s, i + 1, "]")
        b == RunNot(s, i + a + 3, ")")
    IN  IF CharAt(s, i) = "[" /\ a >= minLabel /\ CharAt(s, i + a + 1) = "]"
           /\ CharAt(s, i + a + 2) = "(" /\ b >= 1 /\ CharAt(s, i + a + b + 3) = ")"
        THEN <<i + a + 1, i + a + b + 3>>
        ELSE <<0, 0>>

ImageMatch(s, i) == IF CharAt(s, i) = "!" THEN BracketParen(s, i + 1, 0) ELSE <<0, 0>>

replace_img(alt, imgsrc) ==
    <<"<figure style=\"margin: 1.5em 8px; color: #3f3f3f;\">", "<img src=\"">> \o imgsrc
    \o <<"\" alt=\"">> \o escape(alt) \o <<"\" style=\"">> \o STYLES_img \o <<"\">">>
    \o <<"<figcaption style=\"">> \o STYLES_figcaption \o <<"\">">> \o escape(alt)
    \o <<"</figcaption>", "</figure>">>

replace_link(label, href) ==
    <<"<a href=\"">> \o href \o <<"\" title=\"">> \o escape(label)
    \o <<"\" style=\"">> \o STYLES_link \o <<"\">">> \o label \o <<"</a>">>

replace_inline_math(formula) ==
    <<"<span class=\"katex-inline-render\" data-formula-b64=\"", b64encode(formula),
      "\" style=\"max-width: 100%; overflow-x: auto;\">",
      "<code style=\"font-style: italic; color: #FA5151;\">">>
    \o escape(formula) \o <<"</code>", "</span>">>

StrongOpen == <<"<strong style=\"">> \o STYLES_strong \o <<"\">">>

EmOpen == <<"<em style=\"">> \o STYLES_em \o <<"\">">>

replace_bold_italic(group) == StrongOpen \o EmOpen \o group \o <<"</em>", "</strong>">>

replace_bold(group) == StrongOpen \o group \o <<"</strong>">>

replace_italic(group) == EmOpen \o group \o <<"</em>">>

replace_del(group) == <<"<del>">> \o group \o <<"</del>">>

RECURSIVE SubCodeFrom(_, _)
SubCodeFrom(s, i) ==
    IF i > Len(s) THEN <<>>
    ELSE LET e == CodeEnd(s, i)
         IN  IF e > 0
             THEN replace_code(SubSeq(s, i + 1, e - 1)) \o SubCodeFrom(s, e + 1)
             ELSE <<s[i]>> \o SubCodeFrom(s, i + 1)

RECURSIVE SubImageFrom(_, _)
SubImageFrom(s, i) ==
    IF i > Len(s) THEN <<>>
    ELSE LET m == ImageMatch(s, i)
         IN  IF m[2] > 0
             THEN replace_img(SubSeq(s, i + 2, m[1] - 1), SubSeq(s, m[1] + 2, m[2] - 1))
                  \o SubImageFrom(s, m[2] + 1)
             ELSE <<s[i]>> \o SubImageFrom(s, i + 1)

RECURSIVE SubLinkFrom(_, _)
SubLinkFrom(s, i) ==
    IF i > Len(s) THEN <<>>
    ELSE LET m == BracketParen(s, i, 1)
         IN  IF m[2] > 0
             THEN replace_link(SubSeq(s, i + 1, m[1] - 1), SubSeq(s, m[1] + 2, m[2] - 1))
                  \o SubLinkFrom(s, m[2] + 1)
             ELSE <<s[i]>> \o SubLinkFrom(s, i + 1)

RECURSIVE SubMathFrom(_, _)
SubMathFrom(s, i) ==
    IF i > Len(s) THEN <<>>
    ELSE LET e == SingleClose(s, i, "$")
         IN  IF e > 0
             THEN replace_inline_math(SubSeq(s, i + 1, e - 1)) \o SubMathFrom(s, e + 1)
             ELSE <<s[i]>> \o SubMathFrom(s, i + 1)

\* d1(.+?)d1|d2(.+?)d2 with delimiters of n characters: bold-italic, bold
RECURSIVE SubDelimFrom(_, _, _, _, _)
SubDelimFrom(s, i, d1, d2, n) ==
    IF i > Len(s) THEN <<>>
    ELSE LET e1 == DelimClose(s, i, d1)
             e2 == DelimClose(s, i, d2)
             e  == IF e1 > 0 THEN e1 ELSE e2
             g  == SubSeq(s, i + n, e - 1)
         IN  IF e > 0
             THEN (IF n = 3 THEN replace_bold_italic(g) ELSE replace_bold(g))
                  \o SubDelimFrom(s, e + n, d1, d2, n)
             ELSE <<s[i]>> \o SubDelimFrom(s, i + 1, d1, d2, n)

RECURSIVE SubItalicFrom(_, _)
SubItalicFrom(s, i) ==
    IF i > Len(s) THEN <<>>
    ELSE LET e1 == SingleClose(s, i, "*")
             e2 == SingleClose(s, i, "_")
             e  == IF e1 > 0 THEN e1 ELSE e2
         IN  IF e > 0
             THEN replace_italic(SubSeq(s, i + 1, e - 1)) \o SubItalicFrom(s, e + 1)
             ELSE <<s[i]>> \o SubItalicFrom(s, i + 1)

RECURSIVE SubStrikeFrom(_, _)
SubStrikeFrom(s, i) ==
    IF i > Len(s) THEN <<>>
    ELSE LET e == DelimClose(s, i, <<"~", "~">>)
         IN  IF e > 0
             THEN replace_del(SubSeq(s, i + 2, e - 1)) \o SubStrikeFrom(s, e + 2)
             ELSE <<s[i]>> \o SubStrikeFrom(s, i + 1)

\* the eight passes, in the order of the source
SubCode(s) == SubCodeFrom(s, 1)
SubImage(s) == SubImageFrom(s, 1)
SubLink(s) == SubLinkFrom(s, 1)
SubMath(s) == SubMathFrom(s, 1)
SubBoldItalic(s) == SubDelimFrom(s, 1, <<"*", "*", "*">>, <<"_", "_", "_">>, 3)
SubBold(s) == SubDelimFrom(s, 1, <<"*", "*">>, <<"_", "_">>, 2)
SubItalic(s) == SubItalicFrom(s, 1)
SubStrike(s) == SubStrikeFrom(s, 1)

\* the number of passes of render_inline
NSteps == 8

\* pass number k of render_inline
InlineStep(k, s) ==
    CASE k = 1 -> SubCode(s)
      [] k = 2 -> SubImage(s)
      [] k = 3 -> SubLink(s)
      [] k = 4 -> SubMath(s)
      [] k = 5 -> SubBoldItalic(s)
      [] k = 6 -> SubBold(s)
      [] k = 7 -> SubItalic(s)
      [] OTHER -> SubStrike(s)

\* the text after the first k passes: pass k works on the value that the
\* pass before it returned
RECURSIVE Passes(_, _)
Passes(k, s) ==
    IF k = 0 THEN s
    ELSE CHOOSE t \in {InlineStep(k, u) : u \in {Passes(k - 1, s)}} : TRUE

\* render_inline (lines 190-263): the eight passes in their order
render_inline(s) == Passes(NSteps, s)

-----------------------------------------------------------------------------
(* The tests the block parsers make on a line. *)

\* line.strip() == ''
IsBlank(line) == Strip(line) = <<>>

\* the number of leading whitespace characters: len of group 1 of ^(\s*)
Indent(line) == RunLen(line, WS)

\* a heading test with no upper limit on the number of '#'
IsHeadingStart_any_level(line) ==
    LET n == RunLen(line, {"#"})
    IN  n >= 1 /\ CharAt(line, n + 1) \in WS

\* re.match(r'^#{1,6}\s', line)
IsHeadingStart(line) ==
    LET n == RunLen(line, {"#"})
    IN  n >= 1 /\ n <= 6 /\ CharAt(line, n + 1) \in WS

\* line.strip().startswith of the fence marker, of $$, of |, of >, of <
IsFenceStart(line) == StartsWith(Strip(line), <<Backtick, Backtick, Backtick>>)
IsMathStart(line) == StartsWith(Strip(line), <<"$", "$">>)
IsTableStart(line) == StartsWith(Strip(line), <<"|">>)
IsQuoteStart(line) == StartsWith(Strip(line), <<">">>)
IsHtmlLine(line) == StartsWith(Strip(line), <<"<">>)

\* re.match(r'^(\s*)[-*+]\s', line)
IsUlItem(line) ==
    /\ CharAt(line, Indent(line) + 1) \in {"-", "*", "+"}
    /\ CharAt(line, Indent(line) + 2) \in WS

\* group 2 of ^(\s*)[-*+]\s+(.*)
UlContent(line) == LStrip(Drop(line, Indent(line) + 1))

\* the number of digits after the leading whitespace
OlDigits(line) == RunLen(Drop(line, Indent(line)), Digits)

\* re.match(r'^(\s*)\d+\.\s', line)
IsOlItem(line) ==
    /\ OlDigits(line) >= 1
    /\ CharAt(line, Indent(line) + OlDigits(line) + 1) = "."
    /\ CharAt(line, Indent(line) + OlDigits(line) + 2) \in WS

\* group 2 of ^(\s*)\d+\.\s+(.*)
OlContent(line) == LStrip(Drop(line, Indent(line) + OlDigits(line) + 1))

\* re.match(r'^(-{3,}|\*{3,}|_{3,})\s*$', line.strip())
IsThematicBreak(line) ==
    LET t == Strip(line)
    IN  Len(t) >= 3 /\ \E c \in {"-", "*", "_"} : RunLen(t, {c}) = Len(t)

\* line.strip().startswith('<') and not line.strip().startswith('<![')
IsHtmlStart(line) == IsHtmlLine(line) /\ ~StartsWith(Strip(line), <<"<", "!", "[">>)

\* the paragraph parser stopping at every line that starts with '<'
IsHtmlStart_any(line) == IsHtmlLine(line)

\* the start test of the paragraph parser for raw HTML:
\* line.strip().startswith('<') and not line.strip().startswith('<!')
IsHtmlStartInParagraph(line) == IsHtmlLine(line) /\ ~StartsWith(Strip(line), <<"<", "!">>)

\* a dispatcher without the branch of the thematic break
BlockKind_no_hr(line) ==
    CASE IsBlank(line) -> "blank"
      [] IsHeadingStart(line) -> "heading"
      [] IsFenceStart(line) -> "code"
      [] IsMathStart(line) -> "math"
      [] IsTableStart(line) -> "table"
      [] IsQuoteStart(line) -> "bq"
      [] IsUlItem(line) -> "ul"
      [] IsOlItem(line) -> "ol"
      [] IsHtmlStart(line) -> "html"
      [] OTHER -> "para"

\* the branch _parse_blocks takes on a line: the first test that matches
BlockKind(line) ==
    CASE IsBlank(line) -> "blank"
      [] IsHeadingStart(line) -> "heading"
      [] IsFenceStart(line) -> "code"
      [] IsMathStart(line) -> "math"
      [] IsTableStart(line) -> "table"
      [] IsQuoteStart(line) -> "bq"
      [] IsUlItem(line) -> "ul"
      [] IsOlItem(line) -> "ol"
      [] IsThematicBreak(line) -> "hr"
      [] IsHtmlStart(line) -> "html"
      [] OTHER -> "para"

\* the condition on which _parse_paragraph stops before a non-blank line
ParagraphStop(line) ==
    \/ IsHeadingStart(line)
    \/ IsFenceStart(line)
    \/ IsMathStart(line)
    \/ IsQuoteStart(line)
    \/ IsTableStart(line)
    \/ IsUlItem(line)
    \/ IsOlItem(line)
    \/ IsThematicBreak(line)
    \/ IsHtmlStartInParagraph(line)

\* re.match(r'^\|[\s\-:|]+\|$', line.strip())
IsSeparatorRow(line) ==
    LET t == Strip(line)
    IN  /\ Len(t) >= 3
        /\ t[1] = "|"
        /\ t[Len(t)] = "|"
        /\ \A i \in 2..(Len(t) - 1) : t[i] \in WS \cup {"-", ":", "|"}

\* [c.strip() for c in line.strip().strip('|').split('|')]
Cells(line) ==
    LET parts == Split(StripPipes(Strip(line)), "|")
    IN  [i \in DOMAIN parts |-> Strip(parts[i])]

\* re.sub(r'^>\s?', '', line, count=1)
StripQuoteMarker(line) ==
    IF CharAt(line, 1) = ">"
    THEN (IF CharAt(line, 2) \in WS THEN Drop(line, 2) ELSE Drop(line, 1))
    ELSE line

\* re.search(r'^>', inner_text, re.MULTILINE), inner_text being the lines
\* of bq_lines joined by newlines
HasNestedQuote(bq_lines) == \E i \in DOMAIN bq_lines : CharAt(bq_lines[i], 1) = ">"

\* group 1 of re.match(r'^```(\w*)', line.strip())
FenceLang(line) ==
    LET rest == Drop(Strip(line), 3)
    IN  Take(rest, RunLen(rest, WordChars))

\* str.replace('  ', '&nbsp;&nbsp;'): pairs of spaces, left to right
RECURSIVE ReplaceDoubleSpace(_)
ReplaceDoubleSpace(s) ==
    IF s = <<>> THEN <<>>
    ELSE IF StartsWith(s, <<" ", " ">>) THEN <<"&nbsp;&nbsp;">> \o ReplaceDoubleSpace(Drop(s, 2))
    ELSE <<Head(s)>> \o ReplaceDoubleSpace(Tail(s))

-----------------------------------------------------------------------------
(* The style table of the block elements, and the fragments.  The text of  *)
(* a style is one element: no block-level markup is read again by a        *)
(* regular expression.  Characters outside ASCII are written {U+xxxx}.     *)

STYLES_h1 ==
    "display: table; border-bottom: 2px solid #FA5151; margin: 2em auto 1em; font-weight: bold; text-align: center; padding: 0.5em 1em; font-size: 22.4px; text-shadow: 1px 1px 3px rgba(0, 0, 0, 0.05); color: #FA5151; background: transparent;"

STYLES_h2 ==
    "margin: 2em 8px 0.75em 0; color: #3f3f3f; font-weight: bold; padding-left: 12px; font-size: 19.2px; border-radius: 6px; line-height: 2.4em; border-left: 4px solid #FA5151; border-right: 1px solid color-mix(in srgb, #FA5151 10%, transparent); border-bottom: 1px solid color-mix(in srgb, #FA5151 10%, transparent); border-top: 1px solid color-mix(in srgb, #FA5151 10%, transparent); background: color-mix(in srgb, #FA5151 8%, transparent);"

STYLES_h3 ==
    "margin: 2em 8px 0.5em; font-weight: bold; display: block; text-align: left; background: transparent; margin-left: 0; padding-left: 10px; border-left: 4px solid #FA5151; color: #FA5151; font-size: 17.6px; border-radius: 6px;"

STYLES_h4 ==
    "margin: 1.5em 8px 0.5em; font-weight: bold; display: block; text-align: left; background: transparent; margin-left: 0; padding-left: 10px; border-left: 4px solid #FA5151; color: #FA5151; font-size: 16px; border-radius: 6px;"

STYLES_h5 ==
    "margin: 1.5em 8px 0.5em; display: block; text-align: left; background: transparent; margin-left: 0; padding-left: 10px; border-left: 4px solid #FA5151; color: #FA5151; font-size: 16px; border-radius: 6px;"

STYLES_h6 ==
    "margin: 1.5em 8px 0.5em; display: block; text-align: left; background: transparent; margin-left: 0; padding-left: 10px; border-left: 4px solid #FA5151; color: #FA5151; font-size: 16px; border-radius: 6px;"

STYLES_p ==
    "margin: 1.5em 8px; letter-spacing: 0.1em; color: #3f3f3f;"

STYLES_ul ==
    "margin-left: 0; color: #3f3f3f; list-style: none; padding-left: 1.5em;"

STYLES_ol ==
    "margin-left: 0; color: #3f3f3f; padding-left: 1.5em;"

STYLES_li ==
    "display: block; color: #3f3f3f; margin: 0.5em 8px;"

STYLES_code_block ==
    "color: #c9d1d9; background: #0d1117; font-size: 90%; overflow-x: auto; border-radius: 8px; line-height: 1.5; margin: 10px 8px; border: 1px solid rgba(0, 0, 0, 0.04); padding: 0 !important;"

STYLES_code_inner ==
    "font-size: 90%; border-radius: 4px; display: -webkit-box; padding: 0.5em 1em 1em; overflow-x: auto; text-indent: 0; color: inherit; background: none; white-space: pre; margin: 0; font-family: 'Fira Code', Menlo, Operator Mono, Consolas, Monaco, monospace;"

STYLES_blockquote ==
    "border-left: 4px solid #FA5151; border-radius: 6px; background: #f7f7f7; margin-bottom: 1em; font-style: italic; padding: 1em 1em 1em 2em; color: rgba(0, 0, 0, 0.6); border-bottom: 0.2px solid rgba(0, 0, 0, 0.04); border-top: 0.2px solid rgba(0, 0, 0, 0.04); border-right: 0.2px solid rgba(0, 0, 0, 0.04);"

STYLES_blockquote_p ==
    "display: block; font-size: 1em; letter-spacing: 0.1em; color: #3f3f3f; margin: 0;"

STYLES_hr ==
    "height: 1px; border: none; margin: 2em 0; background: linear-gradient(to right, rgba(0,0,0,0), rgba(0,0,0,0.1), rgba(0,0,0,0));"

STYLES_table ==
    "color: #3f3f3f; margin-top: 0 !important;"

STYLES_th ==
    "border: 1px solid #dfdfdf; padding: 0.25em 0.5em; color: #3f3f3f; word-break: keep-all; background: rgba(0, 0, 0, 0.05);"

STYLES_td ==
    "border: 1px solid #dfdfdf; padding: 0.25em 0.5em; color: #3f3f3f; word-break: keep-all;"

STYLES_container ==
    "font-family: -apple-system-font, BlinkMacSystemFont, 'Helvetica Neue', 'PingFang SC', 'Hiragino Sans GB', 'Microsoft YaHei UI', 'Microsoft YaHei', Arial, sans-serif; font-size: 16px; line-height: 1.75; text-align: left;"

FONT_FAMILY ==
    "-apple-system-font, BlinkMacSystemFont, 'Helvetica Neue', 'PingFang SC', 'Hiragino Sans GB', 'Microsoft YaHei UI', 'Microsoft YaHei', Arial, sans-serif"

MAC_DOTS_SVG ==
    "<span style=\"display: flex; padding: 10px 14px 0;\"><svg xmlns=\"http://www.w3.org/2000/svg\" width=\"45px\" height=\"13px\" viewBox=\"0 0 450 130\"><ellipse cx=\"50\" cy=\"65\" rx=\"50\" ry=\"52\" stroke=\"rgb(220,60,54)\" stroke-width=\"2\" fill=\"rgb(237,108,96)\"></ellipse><ellipse cx=\"225\" cy=\"65\" rx=\"50\" ry=\"52\" stroke=\"rgb(218,151,33)\" stroke-width=\"2\" fill=\"rgb(247,193,81)\"></ellipse><ellipse cx=\"400\" cy=\"65\" rx=\"50\" ry=\"52\" stroke=\"rgb(27,161,37)\" stroke-width=\"2\" fill=\"rgb(100,200,86)\"></ellipse></svg></span>"

\* appended to the style of a level-1 heading (line 373)
NO_TOP_MARGIN == " margin-top: 0 !important;"

\* the text 'class="h1"' that _parse_heading looks for in the fragments
H1_CLASS == "class=\"h1\""

\* 'class="h1"' in o: the emitted markup never holds that text, so it is in
\* a fragment only as an element of it that came from the input
HasH1Class(frag) == \E i \in DOMAIN frag : frag[i] = H1_CLASS

DigitStr(d) ==
    CASE d = 0 -> "0" [] d = 1 -> "1" [] d = 2 -> "2" [] d = 3 -> "3" [] d = 4 -> "4"
      [] d = 5 -> "5" [] d = 6 -> "6" [] d = 7 -> "7" [] d = 8 -> "8" [] OTHER -> "9"

\* the decimal text of a natural number, as an f-string writes it
RECURSIVE Str(_)
Str(n) == IF n < 10 THEN DigitStr(n) ELSE Str(n \div 10) \o DigitStr(n % 10)

HeadingStyle(n) ==
    CASE n = 1 -> STYLES_h1 [] n = 2 -> STYLES_h2 [] n = 3 -> STYLES_h3
      [] n = 4 -> STYLES_h4 [] n = 5 -> STYLES_h5 [] OTHER -> STYLES_h6

\* the fragment _parse_heading appends for a heading line (lines 364-374)
heading_html(line, out) ==
    LET level == RunLen(line, {"#"})
        content == render_inline(LStrip(Drop(line, level)))
        style == IF level = 1 /\ ~\E k \in DOMAIN out : HasH1Class(out[k])
                 THEN HeadingStyle(level) \o NO_TOP_MARGIN
                 ELSE HeadingStyle(level)
    IN  <<"<h" \o Str(level) \o " style=\"" \o style \o "\">">>
        \o content \o <<"</h" \o Str(level) \o ">">>

HR_HTML == <<"<hr style=\"" \o STYLES_hr \o "\">">>

MERMAID == <<"m", "e", "r", "m", "a", "i", "d">>

\* _render_mermaid (lines 414-428)
mermaid_html(code) ==
    <<"<div class=\"mermaid-placeholder\" style=\"background: #f6f8fa; border: 1px solid #e1e4e8; border-radius: 8px; padding: 16px; margin: 10px 8px; text-align: center; color: #586069;\">",
      "<p style=\"margin: 0 0 8px; font-weight: bold; color: #FA5151;\">{U+1F4CA} Mermaid {U+56FE}{U+8868}</p>",
      "<pre style=\"text-align: left; font-size: 13px; color: #3f3f3f; background: none; margin: 0; white-space: pre-wrap;\">">>
    \o escape(code)
    \o <<"</pre>",
         "<p style=\"margin: 8px 0 0; font-size: 12px; color: #888;\">{U+63D0}{U+793A}{U+FF1A}{U+5728}{U+6D4F}{U+89C8}{U+5668}{U+4E2D}{U+6253}{U+5F00}{U+53EF}{U+542F}{U+7528} Mermaid.js {U+6E32}{U+67D3}</p>",
         "</div>">>

\* the fragment of a fenced code block (lines 389-406)
code_html(lang, code_lines) ==
    LET code_text == Join(code_lines, <<"\n">>)
    IN  IF lang = MERMAID THEN mermaid_html(code_text)
        ELSE <<"<pre style=\"" \o STYLES_code_block \o "\">", MAC_DOTS_SVG,
               "<code class=\"language-" \o Flat(lang) \o "\" style=\"" \o STYLES_code_inner \o "\">">>
             \o ReplaceDoubleSpace(escape(code_text))
             \o <<"</code></pre>">>

\* the fragment of a math block, for a formula that is not empty (lines 445-457)
math_html(formula) ==
    <<"<section class=\"katex-block-render\" data-formula-b64=\"", b64encode(formula),
      "\" style=\"font-family: " \o FONT_FAMILY \o "; font-size: 16px; line-height: 1.75; max-width: 100%; overflow-x: auto; padding: 0.5em 0; text-align: center;\">",
      "<code style=\"font-size: 14px; color: #3f3f3f; background: rgba(27, 31, 35, 0.05); padding: 8px 16px; border-radius: 4px; display: inline-block; white-space: pre-wrap; text-align: left;\">">>
    \o escape(formula) \o <<"</code></section>">>

TR_OPEN == "<tr>"
THEAD_OPEN == "<thead style=\"font-weight: bold; color: #3f3f3f;\">"
THEAD_CLOSE == "</tr></thead>"
TBODY_OPEN == "<tbody>"
TR_CLOSE == "</tr>"
TABLE_CLOSE == "</tbody></table></section>"

th_html(cell) == <<"<th style=\"" \o STYLES_th \o "\">">> \o render_inline(cell) \o <<"</th>">>

td_html(cell) == <<"<td style=\"" \o STYLES_td \o "\">">> \o render_inline(cell) \o <<"</td>">>

\* the html_parts of one body row (lines 496-499)
body_row_parts(row) == <<<<TR_OPEN>>>> \o [i \in DOMAIN row |-> td_html(row[i])] \o <<<<TR_CLOSE>>>>

RECURSIVE body_parts(_)
body_parts(rows) ==
    IF rows = <<>> THEN <<>> ELSE body_row_parts(Head(rows)) \o body_parts(Tail(rows))

\* the fragment of a table with at least one row (lines 476-502)
table_html(rows) ==
    Join(<<<<"<section style=\"font-family: " \o FONT_FAMILY \o "; font-size: 16px; line-height: 1.75; text-align: left; max-width: 100%; overflow: auto;\">">>,
           <<"<table style=\"" \o STYLES_table \o "\">">>,
           <<THEAD_OPEN>>, <<TR_OPEN>>>>
         \o [i \in DOMAIN rows[1] |-> th_html(rows[1][i])]
         \o <<<<THEAD_CLOSE>>, <<TBODY_OPEN>>>>
         \o body_parts(Tail(rows))
         \o <<<<TABLE_CLOSE>>>>,
         <<"\n">>)

BQ_OPEN == "<blockquote style=\"" \o STYLES_blockquote \o "\">"
BQ_CLOSE == "</blockquote>"

\* the blockquote fragment around its inner markup (lines 539-541)
blockquote_html(inner_html) == <<BQ_OPEN>> \o inner_html \o <<BQ_CLOSE>>

\* the inner markup of a quote with no nested quote (line 537)
quote_paragraph(bq_lines) ==
    <<"<p style=\"" \o STYLES_blockquote_p \o "\">">>
    \o render_inline(Strip(Join(bq_lines, <<"\n">>))) \o <<"</p>">>

\* the opening tag of the section that render puts around the fragments
\* (line 285)
CONTAINER_OPEN == "<section class=\"container\" style=\"" \o STYLES_container \o "\">"

\* the text render returns: the fragments joined by newlines, inside the
\* container section (lines 282-288)
render_return(out) ==
    <<CONTAINER_OPEN, "\n">> \o Join(out, <<"\n">>) \o <<"\n", "</section>">>

\* a sub-renderer's text taken as it is, trimmed only
keep_wrapper(html) == Strip(html)

\* re.sub(r'^<section[^>]*>|</section>$', '', inner_html.strip()).strip():
\* the text is what render returned, so a section tag at its start is the
\* container's (lines 533-535)
strip_wrapper(html) ==
    LET t == Strip(html)
        opened == IF t # <<>> /\ t[1] = CONTAINER_OPEN THEN Tail(t) ELSE t
        closed == IF opened # <<>> /\ opened[Len(opened)] = "</section>"
                  THEN SubSeq(opened, 1, Len(opened) - 1) ELSE opened
    IN  Strip(closed)

\* the inner markup of a quote rendered by a sub-renderer: the text its
\* render returns, the section wrapper removed, stripped (lines 531-535)
quote_nested(sub_output) == strip_wrapper(render_return(sub_output))

UL_OPEN == "<ul style=\"" \o STYLES_ul \o "\">"
UL_CLOSE == "</ul>"
OL_OPEN == "<ol style=\"" \o STYLES_ol \o "\">"
OL_CLOSE == "</ol>"
LI_OPEN == "<li style=\"" \o STYLES_li \o "\">"
LI_CLOSE == "</li>"
BULLET == "{U+2022} "

\* one entry of items as an element of html_parts; an entry is
\* [kind, content, num], content being the markup of a nested list
ul_part(entry) ==
    IF entry.kind = "item"
    THEN <<LI_OPEN, BULLET>> \o render_inline(entry.content) \o <<LI_CLOSE>>
    ELSE entry.content

ol_part(entry) ==
    IF entry.kind = "item"
    THEN <<LI_OPEN, Str(entry.num) \o ". ">> \o render_inline(entry.content) \o <<LI_CLOSE>>
    ELSE entry.content

\* the markup of an unordered list (lines 585-596 and 610-616)
ul_html(items) ==
    Join(<<<<UL_OPEN>>>> \o [i \in DOMAIN items |-> ul_part(items[i])] \o <<<<UL_CLOSE>>>>, <<"\n">>)

\* the markup of an ordered list (lines 641-651 and 667-673)
ol_html(items) ==
    Join(<<<<OL_OPEN>>>> \o [i \in DOMAIN items |-> ol_part(items[i])] \o <<<<OL_CLOSE>>>>, <<"\n">>)

P_OPEN == "<p style=\"" \o STYLES_p \o "\">"
P_CLOSE == "</p>"

\* the fragment of a paragraph (lines 717-718)
paragraph_html(para_lines) ==
    <<P_OPEN>> \o render_inline(Join(para_lines, <<" ">>)) \o <<P_CLOSE>>

\* the fragment of a raw HTML block (line 694)
html_block(html_lines) == Join(html_lines, <<"\n">>)

-----------------------------------------------------------------------------
(* The renderer: MarkdownRenderer.render and the block parsers.  One action *)
(* is one iteration of a loop of the source, or the exit of the loop with   *)
(* the code that follows it.                                                *)

\* the documents: every text of 1 to MaxLines lines of Pool, every text of
\* fewer lines of Pool and EdgePool, and every text of 1 to MaxLines lines of
\* DeepPool, joined by "\n"
Pool ==
    { <<>>,
      <<"#", " ", "*", "a">>,
      <<Backtick, Backtick, Backtick>>,
      <<"$", "$">>,
      <<"|", "a", "|">>,
      <<"|", "-", "|">>,
      <<"|", " ", "|">>,
      <<">", " ", "*", "a">>,
      <<">", ">", "a">>,
      <<"-", " ", "a">>,
      <<" ", " ", "-", " ", "b">>,
      <<"5", ".", " ", "a">>,
      <<" ", " ", "5", ".", " ", "b">>,
      <<"-", "-", "-">>,
      <<"<", "b", ">">>,
      <<"<", "!", "[">>,
      <<"*", "a">> }

RECURSIVE Docs(_)
Docs(n) ==
    IF n = 0 THEN {<<>>}
    ELSE LET shorter == Docs(n - 1)
         IN  shorter \cup {Append(d, l) : d \in {x \in shorter : Len(x) = n - 1}, l \in Pool}

\* lines of rarer shapes, for the documents of fewer than MaxLines lines: a
\* quote line with nothing after the mark, a line that starts with "<!"
\* and not with "<![", headings of levels 2 and 6, seven "#", a table
\* row that starts with two pipes, a quote line with a space before its
\* mark, a line that ends with a carriage return (the first line of a text
\* with CRLF line endings), and a line that starts and ends with "$$"
EdgePool ==
    { <<">">>,
      <<"<", "!", "a">>,
      <<"#", "#", " ", "a">>,
      <<"#", "#", "#", "#", "#", "#", " ", "a">>,
      <<"#", "#", "#", "#", "#", "#", "#", " ", "a">>,
      <<"|", "|", "a", "|">>,
      <<" ", ">", " ", "a">>,
      <<"*", "a", "\r">>,
      <<"$", "$", "a", "$", "$">> }

RECURSIVE EdgeDocs(_)
EdgeDocs(n) ==
    IF n = 0 THEN {<<>>}
    ELSE LET shorter == EdgeDocs(n - 1)
         IN  shorter \cup {Append(d, l) : d \in {x \in shorter : Len(x) = n - 1},
                                           l \in Pool \cup EdgePool}

\* bullet lines at three levels of indentation, for the documents of
\* MaxLines lines that are lists nested in lists
DeepPool ==
    { <<"-", " ", "a">>,
      <<" ", " ", "-", " ", "b">>,
      <<" ", " ", " ", " ", "-", " ", "c">> }

RECURSIVE DeepDocs(_)
DeepDocs(n) ==
    IF n = 0 THEN {<<>>}
    ELSE LET shorter == DeepDocs(n - 1)
         IN  shorter \cup {Append(d, l) : d \in {x \in shorter : Len(x) = n - 1}, l \in DeepPool}

Inputs ==
    {Join(d, <<"\n">>) :
         d \in (Docs(MaxLines) \cup EdgeDocs(MaxLines - 1) \cup DeepDocs(MaxLines)) \ {<<>>}}

\* the texts given to a renderer that has rendered before
AgainInputs ==
    { <<>>,
      <<"*", "a">>,
      <<"#", " ", "*", "a">>,
      <<">", ">", "a", "\n", "-", " ", "a">> }

\* the value None of _peek
None == <<"None">>

\* the locals of the parsers, as they are when no parser runs
NoLocals ==
    [ lang |-> <<>>, code_lines |-> <<>>, formula_lines |-> <<>>, rows |-> <<>>,
      bq_lines |-> <<>>, items |-> <<>>, counter |-> 1, indent |-> 0,
      html_lines |-> <<>>, para_lines |-> <<>>,
      caller |-> "", sub_items |-> <<>>, sub_counter |-> 1, sub_indent |-> 0 ]

\* render without self.output = []: the fragments of the call before stay
render_keeping_output(md_text) ==
    /\ lines' = Split(md_text, "\n")
    /\ pos' = 0
    /\ output' = output
    /\ pc' = "blocks"

\* the state render(md_text) leaves when it calls _parse_blocks (lines 278-281)
render(md_text) ==
    /\ lines' = Split(md_text, "\n")
    /\ pos' = 0
    /\ output' = <<>>
    /\ pc' = "blocks"

\* _peek (lines 290-293)
peek == IF pos < Len(lines) THEN lines[pos + 1] ELSE None

\* the loop condition off by one: while self.pos <= len(self.lines)
more_or_at_end == pos <= Len(lines)

\* the loop condition of every parser: while self.pos < len(self.lines)
more == pos < Len(lines)

\* self.pos + 1 < len(self.lines): the line after the cursor's exists
has_next == pos + 1 < Len(lines)

\* self.lines[self.pos + 1]
next_line == lines[pos + 2]

\* _advance past the end: self.lines[self.pos] raises IndexError
Crash ==
    /\ pc' = "crash"
    /\ UNCHANGED <<lines, pos, output, loc, stack, src, starts, text, step, reused>>

\* a step that calls _advance once (lines 295-298) and then does rest
advance(rest) ==
    IF pos < Len(lines)
    THEN pos' = pos + 1 /\ rest
    ELSE Crash

\* self.output.insert(0, frag): the fragment put first, not last
insert_first(kind, frag, from, to) ==
    /\ output' = <<frag>> \o output
    /\ src' = <<[kind |-> kind, from |-> from, to |-> to]>> \o src

\* self.output.append(frag), for the block handed over at line `from`
append(kind, frag, from, to) ==
    /\ output' = Append(output, frag)
    /\ src' = Append(src, [kind |-> kind, from |-> from, to |-> to])

\* the hand-off of the dispatcher to the parser of a block that starts here
handoff(kind) == starts' = Append(starts, [kind |-> kind, line |-> pos])

\* the line at which the running parser was handed control
block_start == starts[Len(starts)].line

\* return to the loop of _parse_blocks with a fragment appended
emit(kind, frag) ==
    /\ append(kind, frag, block_start, pos')
    /\ pc' = "blocks"
    /\ loc' = NoLocals
    /\ UNCHANGED <<lines, stack, starts, text, step, reused>>

\* return to the loop of _parse_blocks with nothing appended
emit_nothing ==
    /\ pc' = "blocks"
    /\ loc' = NoLocals
    /\ UNCHANGED <<lines, output, stack, src, starts, text, step, reused>>

\* _parse_blocks on a blank line (lines 307-309)
skip_blank ==
    /\ pc = "blocks" /\ more /\ BlockKind(peek) = "blank"
    /\ advance(/\ pc' = "blocks"
               /\ UNCHANGED <<lines, output, loc, stack, src, starts, text, step, reused>>)

\* _parse_blocks on a heading line, with _parse_heading (lines 313-315, 362-374)
parse_heading ==
    /\ pc = "blocks" /\ more /\ BlockKind(peek) = "heading"
    /\ advance(/\ handoff("heading")
               /\ append("heading", heading_html(peek, output), pos, pos + 1)
               /\ pc' = "blocks"
               /\ UNCHANGED <<lines, loc, stack, text, step, reused>>)

\* _parse_blocks on a thematic break (lines 348-351)
thematic_break ==
    /\ pc = "blocks" /\ more /\ BlockKind(peek) = "hr"
    /\ advance(/\ handoff("hr")
               /\ append("hr", HR_HTML, pos, pos + 1)
               /\ pc' = "blocks"
               /\ UNCHANGED <<lines, loc, stack, text, step, reused>>)

\* _parse_blocks calls _parse_code_block, which takes the opening fence
\* (lines 318-319, 378-381)
open_code_block ==
    /\ pc = "blocks" /\ more /\ BlockKind(peek) = "code"
    /\ advance(/\ handoff("code")
               /\ pc' = "code"
               /\ loc' = [NoLocals EXCEPT !.lang = FenceLang(peek)]
               /\ UNCHANGED <<lines, output, stack, src, text, step, reused>>)

\* a loop over the code block that leaves out its blank lines
code_line_dropping_blank ==
    /\ pc = "code" /\ more
    /\ Strip(peek) # <<Backtick, Backtick, Backtick>>
    /\ advance(/\ pc' = "code"
               /\ loc' = [loc EXCEPT !.code_lines = IF IsBlank(peek) THEN @ ELSE Append(@, peek)]
               /\ UNCHANGED <<lines, output, stack, src, starts, text, step, reused>>)

\* one line of the code block that is not the closing fence (lines 383-387)
code_line ==
    /\ pc = "code" /\ more
    /\ Strip(peek) # <<Backtick, Backtick, Backtick>>
    /\ advance(/\ pc' = "code"
               /\ loc' = [loc EXCEPT !.code_lines = Append(@, peek)]
               /\ UNCHANGED <<lines, output, stack, src, starts, text, step, reused>>)

\* the closing fence, or the end of the input: the fragment (lines 385-406)
close_code_block ==
    /\ pc = "code"
    /\ IF more
       THEN /\ Strip(peek) = <<Backtick, Backtick, Backtick>>
            /\ advance(emit("code", code_html(loc.lang, loc.code_lines)))
       ELSE /\ pos' = pos
            /\ emit("code", code_html(loc.lang, loc.code_lines))

\* a math block that keeps what follows "$$" on its opening line as the
\* first line of the formula
open_math_block_keeping_rest ==
    /\ pc = "blocks" /\ more /\ BlockKind(peek) = "math"
    /\ advance(/\ handoff("math")
               /\ pc' = "math"
               /\ loc' = [NoLocals EXCEPT !.formula_lines = <<Drop(Strip(peek), 2)>>]
               /\ UNCHANGED <<lines, output, stack, src, text, step, reused>>)

\* _parse_blocks calls _parse_math_block, which skips the opening line
\* (lines 323-324, 432-433)
open_math_block ==
    /\ pc = "blocks" /\ more /\ BlockKind(peek) = "math"
    /\ advance(/\ handoff("math")
               /\ pc' = "math"
               /\ loc' = NoLocals
               /\ UNCHANGED <<lines, output, stack, src, text, step, reused>>)

\* one line of the formula (lines 434-439)
math_line ==
    /\ pc = "math" /\ more
    /\ ~(peek # None /\ Strip(peek) = <<"$", "$">>)
    /\ advance(/\ pc' = "math"
               /\ loc' = [loc EXCEPT !.formula_lines = Append(@, peek)]
               /\ UNCHANGED <<lines, output, stack, src, starts, text, step, reused>>)

\* a math block that appends its fragment whatever the formula
math_emit_always ==
    emit("math", math_html(Strip(Join(loc.formula_lines, <<"\n">>))))

\* the fragment of the formula, if it is not empty (lines 441-457)
math_emit ==
    LET formula == Strip(Join(loc.formula_lines, <<"\n">>))
    IN  IF formula = <<>> THEN emit_nothing
        ELSE emit("math", math_html(formula))

\* the closing $$ line, or the end of the input (lines 434-438, 441-457)
close_math_block ==
    /\ pc = "math"
    /\ IF more
       THEN /\ peek # None /\ Strip(peek) = <<"$", "$">>
            /\ advance(math_emit)
       ELSE /\ pos' = pos
            /\ math_emit

\* _parse_blocks calls a parser that starts with its loop: the table, the
\* blockquote, the two lists, the raw HTML block and the paragraph
\* (lines 328-359)
enter_parser ==
    /\ pc = "blocks" /\ more
    /\ BlockKind(peek) \in {"table", "bq", "ul", "ol", "html", "para"}
    /\ handoff(BlockKind(peek))
    /\ pc' = BlockKind(peek)
    /\ loc' = NoLocals
    /\ UNCHANGED <<lines, pos, output, stack, src, text, step, reused>>

\* one line of the table: dropped if a separator, else a row (lines 462-471)
table_line ==
    /\ pc = "table" /\ more
    /\ ~(peek = None \/ ~IsTableStart(peek))
    /\ advance(/\ pc' = "table"
               /\ loc' = IF IsSeparatorRow(peek) THEN loc
                         ELSE [loc EXCEPT !.rows = Append(@, Cells(peek))]
               /\ UNCHANGED <<lines, output, stack, src, starts, text, step, reused>>)

\* the end of the table: the fragment, if there is a row (lines 464-465, 473-502)
table_emit ==
    /\ pc = "table"
    /\ ~more \/ peek = None \/ ~IsTableStart(peek)
    /\ pos' = pos
    /\ IF loc.rows = <<>> THEN emit_nothing
       ELSE emit("table", table_html(loc.rows))

\* a quote loop that stops at every blank line
QuoteTakes_no_blank(line) ==
    IF line = None THEN "stop"
    ELSE IF IsQuoteStart(line) THEN "quoted"
    ELSE "stop"

\* what the loop of _parse_blockquote does with the line at the cursor:
\* take a quoted line, take a blank line inside the quote, or stop
\* (lines 508-524)
QuoteTakes(line) ==
    IF line = None THEN "stop"
    ELSE IF IsQuoteStart(line) THEN "quoted"
    ELSE IF IsBlank(line) /\ has_next /\ IsQuoteStart(next_line) THEN "blank"
    ELSE "stop"

\* one line of the blockquote (lines 507-520)
bq_line ==
    /\ pc = "bq" /\ more
    /\ QuoteTakes(peek) # "stop"
    /\ advance(/\ pc' = "bq"
               /\ loc' = [loc EXCEPT !.bq_lines =
                             Append(@, IF QuoteTakes(peek) = "quoted"
                                       THEN StripQuoteMarker(peek) ELSE <<>>)]
               /\ UNCHANGED <<lines, output, stack, src, starts, text, step, reused>>)

\* the end of a quote with no nested quote: the fragment (lines 527-541)
bq_emit ==
    /\ pc = "bq"
    /\ ~more \/ QuoteTakes(peek) = "stop"
    /\ ~HasNestedQuote(loc.bq_lines)
    /\ pos' = pos
    /\ emit("bq", blockquote_html(quote_paragraph(loc.bq_lines)))

\* the renderer as it is kept while a sub-renderer renders the text of its quote
Suspended == [lines |-> lines, pos |-> pos, output |-> output, src |-> src, starts |-> starts]

\* the end of a quote that holds a nested quote: a new MarkdownRenderer
\* renders the inner text (lines 527-531)
bq_render_nested ==
    /\ pc = "bq"
    /\ ~more \/ QuoteTakes(peek) = "stop"
    /\ HasNestedQuote(loc.bq_lines)
    /\ stack' = Append(stack, Suspended)
    /\ render(Join(loc.bq_lines, <<"\n">>))
    /\ loc' = NoLocals
    /\ src' = <<>>
    /\ starts' = <<>>
    /\ UNCHANGED <<text, step, reused>>

\* the renderer that called the sub-renderer, once it has the inner markup:
\* its own lines and cursor, and its output with the quote appended
resume(outer, inner_html) ==
    /\ lines' = outer.lines
    /\ pos' = outer.pos
    /\ output' = Append(outer.output, blockquote_html(inner_html))

\* the sub-renderer's _parse_blocks ends and render returns to
\* _parse_blockquote, which appends the quote (lines 301, 282-288, 531-541)
bq_nested_done ==
    /\ pc = "blocks" /\ ~more /\ stack # <<>>
    /\ LET outer == stack[Len(stack)]
       IN  /\ resume(outer, quote_nested(output))
           /\ src' = Append(outer.src,
                            [kind |-> "bq",
                             from |-> outer.starts[Len(outer.starts)].line,
                             to |-> outer.pos])
           /\ starts' = outer.starts
    /\ stack' = SubSeq(stack, 1, Len(stack) - 1)
    /\ pc' = "blocks"
    /\ loc' = NoLocals
    /\ UNCHANGED <<text, step, reused>>

\* the loop of _parse_blocks ends in the renderer that render was called on
\* (line 301): render returns
finish ==
    /\ pc = "blocks" /\ ~more /\ stack = <<>>
    /\ pc' = "done"
    /\ UNCHANGED <<lines, pos, output, loc, stack, src, starts, text, step, reused>>

\* what the loop of _parse_unordered_list does with the line at the cursor
\* (lines 547-583)
UlTakes(line, indent) ==
    IF line = None \/ IsBlank(line)
    THEN (IF has_next /\ IsUlItem(next_line) /\ Indent(next_line) >= indent
          THEN "skip" ELSE "break")
    ELSE IF IsUlItem(line)
    THEN (IF Indent(line) < indent THEN "break"
          ELSE IF Indent(line) > indent
          THEN (IF IsOlItem(line) THEN "nested_ol" ELSE "nested_ul")
          ELSE "item")
    ELSE IF IsOlItem(line)
    THEN (IF Indent(line) > indent THEN "nested_ol" ELSE "break")
    ELSE "break"

\* a blank line inside the list (lines 548-554)
ul_skip_blank ==
    /\ pc = "ul" /\ more
    /\ UlTakes(peek, loc.indent) = "skip"
    /\ advance(/\ pc' = "ul"
               /\ UNCHANGED <<lines, output, loc, stack, src, starts, text, step, reused>>)

\* an item of the list (lines 572-573)
ul_item ==
    /\ pc = "ul" /\ more
    /\ UlTakes(peek, loc.indent) = "item"
    /\ advance(/\ pc' = "ul"
               /\ loc' = [loc EXCEPT !.items =
                             Append(@, [kind |-> "item", content |-> UlContent(peek), num |-> 0])]
               /\ UNCHANGED <<lines, output, stack, src, starts, text, step, reused>>)

\* a deeper line: the call of _collect_unordered_list or of
\* _collect_ordered_list (lines 562-571, 574-580)
ul_nested ==
    /\ pc = "ul" /\ more
    /\ UlTakes(peek, loc.indent) \in {"nested_ul", "nested_ol"}
    /\ pc' = IF UlTakes(peek, loc.indent) = "nested_ul" THEN "collect_ul" ELSE "collect_ol"
    /\ loc' = [loc EXCEPT !.caller = "ul", !.sub_items = <<>>, !.sub_counter = 1,
                          !.sub_indent = Indent(peek)]
    /\ UNCHANGED <<lines, pos, output, stack, src, starts, text, step, reused>>

\* the end of the list: the fragment (lines 555-561, 581-596)
ul_emit ==
    /\ pc = "ul"
    /\ ~more \/ UlTakes(peek, loc.indent) = "break"
    /\ pos' = pos
    /\ emit("ul", ul_html(loc.items))

\* does the loop of a _collect_ helper take the line: a non-blank item line
\* of its kind at indentation >= indent (lines 601-609, 657-666)
CollectTakes(line, isItem, indent) ==
    line # None /\ ~IsBlank(line) /\ isItem /\ Indent(line) >= indent

\* one item of _collect_unordered_list (lines 604-607)
collect_ul_item ==
    /\ pc = "collect_ul" /\ more
    /\ CollectTakes(peek, IsUlItem(peek), loc.sub_indent)
    /\ advance(/\ pc' = "collect_ul"
               /\ loc' = [loc EXCEPT !.sub_items =
                             Append(@, [kind |-> "item", content |-> UlContent(peek), num |-> 0])]
               /\ UNCHANGED <<lines, output, stack, src, starts, text, step, reused>>)

\* the caller of a _collect_ helper appending the nested list to the output
\* as a fragment of its own as well
take_nested_and_append(kind, sub_html) ==
    /\ pc' = loc.caller
    /\ loc' = [loc EXCEPT !.items = Append(@, [kind |-> kind, content |-> sub_html, num |-> 0]),
                          !.caller = "", !.sub_items = <<>>, !.sub_counter = 1,
                          !.sub_indent = 0]
    /\ output' = Append(output, sub_html)
    /\ src' = Append(src, [kind |-> kind, from |-> block_start, to |-> pos])
    /\ UNCHANGED <<lines, pos, stack, starts, text, step, reused>>

\* what the caller of a _collect_ helper does with the markup it returns:
\* items.append((kind, sub_html)), and on with its loop
take_nested(kind, sub_html) ==
    /\ pc' = loc.caller
    /\ loc' = [loc EXCEPT !.items = Append(@, [kind |-> kind, content |-> sub_html, num |-> 0]),
                          !.caller = "", !.sub_items = <<>>, !.sub_counter = 1,
                          !.sub_indent = 0]
    /\ UNCHANGED <<lines, pos, output, stack, src, starts, text, step, reused>>

\* _collect_unordered_list returns its markup (lines 602-603, 608-616, 569-571)
collect_ul_return ==
    /\ pc = "collect_ul"
    /\ ~more \/ ~CollectTakes(peek, IsUlItem(peek), loc.sub_indent)
    /\ take_nested("nested_ul", ul_html(loc.sub_items))

\* what the loop of _parse_ordered_list does with the line at the cursor
\* (lines 623-639)
OlTakes(line, indent) ==
    IF line = None \/ IsBlank(line) THEN "break"
    ELSE IF IsOlItem(line)
    THEN (IF Indent(line) < indent THEN "break"
          ELSE IF Indent(line) > indent THEN "nested"
          ELSE "item")
    ELSE "break"

\* an item of the list, numbered by the counter (lines 635-637)
ol_item ==
    /\ pc = "ol" /\ more
    /\ OlTakes(peek, loc.indent) = "item"
    /\ advance(/\ pc' = "ol"
               /\ loc' = [loc EXCEPT !.items =
                             Append(@, [kind |-> "item", content |-> OlContent(peek),
                                        num |-> loc.counter]),
                                     !.counter = @ + 1]
               /\ UNCHANGED <<lines, output, stack, src, starts, text, step, reused>>)

\* a deeper item: the call of _collect_ordered_list (lines 631-634)
ol_nested ==
    /\ pc = "ol" /\ more
    /\ OlTakes(peek, loc.indent) = "nested"
    /\ pc' = "collect_ol"
    /\ loc' = [loc EXCEPT !.caller = "ol", !.sub_items = <<>>, !.sub_counter = 1,
                          !.sub_indent = Indent(peek)]
    /\ UNCHANGED <<lines, pos, output, stack, src, starts, text, step, reused>>

\* the end of the list: the fragment (lines 624-625, 629-630, 638-651)
ol_emit ==
    /\ pc = "ol"
    /\ ~more \/ OlTakes(peek, loc.indent) = "break"
    /\ pos' = pos
    /\ emit("ol", ol_html(loc.items))

\* one item of _collect_ordered_list (lines 660-664)
collect_ol_item ==
    /\ pc = "collect_ol" /\ more
    /\ CollectTakes(peek, IsOlItem(peek), loc.sub_indent)
    /\ advance(/\ pc' = "collect_ol"
               /\ loc' = [loc EXCEPT !.sub_items =
                             Append(@, [kind |-> "item", content |-> OlContent(peek),
                                        num |-> loc.sub_counter]),
                                     !.sub_counter = @ + 1]
               /\ UNCHANGED <<lines, output, stack, src, starts, text, step, reused>>)

\* _collect_ordered_list returns its markup (lines 658-659, 665-673); the
\* caller keeps it as 'nested_ol' (lines 566-567, 578-579) or 'nested' (632-633)
collect_ol_return ==
    /\ pc = "collect_ol"
    /\ ~more \/ ~CollectTakes(peek, IsOlItem(peek), loc.sub_indent)
    /\ take_nested(IF loc.caller = "ul" THEN "nested_ol" ELSE "nested", ol_html(loc.sub_items))

\* a raw HTML loop that takes only lines that start with '<'
HtmlTakes_html_only(line, html_lines) ==
    IF line = None THEN FALSE
    ELSE IF IsBlank(line) /\ html_lines # <<>>
    THEN has_next /\ IsHtmlLine(next_line)
    ELSE IsHtmlLine(line)

\* does the loop of _parse_html_block take the line at the cursor (lines 680-693)
HtmlTakes(line, html_lines) ==
    IF line = None THEN FALSE
    ELSE IF IsBlank(line) /\ html_lines # <<>>
    THEN has_next /\ IsHtmlLine(next_line)
    ELSE IsHtmlLine(line) \/ (html_lines # <<>> /\ Strip(line) # <<>>)

\* one line of the raw HTML block (lines 687, 691)
html_line ==
    /\ pc = "html" /\ more
    /\ HtmlTakes(peek, loc.html_lines)
    /\ advance(/\ pc' = "html"
               /\ loc' = [loc EXCEPT !.html_lines = Append(@, peek)]
               /\ UNCHANGED <<lines, output, stack, src, starts, text, step, reused>>)

\* the end of the raw HTML block: the fragment (lines 689, 693-694)
html_emit ==
    /\ pc = "html"
    /\ ~more \/ ~HtmlTakes(peek, loc.html_lines)
    /\ pos' = pos
    /\ emit("html", html_block(loc.html_lines))

\* the loop of _parse_paragraph without its test for a blank line
ParagraphTakes_blank(line) == line # None /\ ~ParagraphStop(line)

\* does the loop of _parse_paragraph take the line at the cursor (lines 700-713)
ParagraphTakes(line) == line # None /\ ~IsBlank(line) /\ ~ParagraphStop(line)

\* one line of the paragraph (line 714)
para_line ==
    /\ pc = "para" /\ more
    /\ ParagraphTakes(peek)
    /\ advance(/\ pc' = "para"
               /\ loc' = [loc EXCEPT !.para_lines = Append(@, peek)]
               /\ UNCHANGED <<lines, output, stack, src, starts, text, step, reused>>)

\* the end of the paragraph: the fragment, if it has a line (lines 701-702, 713-718)
para_emit ==
    /\ pc = "para"
    /\ ~more \/ ~ParagraphTakes(peek)
    /\ pos' = pos
    /\ IF loc.para_lines = <<>> THEN emit_nothing
       ELSE emit("para", paragraph_html(loc.para_lines))

\* render is called again on a renderer that has rendered (lines 277-281)
render_again ==
    /\ pc = "done"
    /\ \E md \in AgainInputs : render(md)
    /\ src' = <<>>
    /\ starts' = <<>>
    /\ reused' = TRUE
    /\ UNCHANGED <<loc, stack, text, step>>

Init ==
    /\ \E md \in Inputs : lines = Split(md, "\n")
    /\ pos = 0
    /\ output = <<>>
    /\ pc = "blocks"
    /\ loc = NoLocals
    /\ stack = <<>>
    /\ src = <<>>
    /\ starts = <<>>
    /\ text = <<>>
    /\ step = NSteps
    /\ reused = FALSE

\* the steps of a render call, from its call to its return
Run ==
    \/ skip_blank
    \/ parse_heading
    \/ thematic_break
    \/ open_code_block
    \/ code_line
    \/ close_code_block
    \/ open_math_block
    \/ math_line
    \/ close_math_block
    \/ enter_parser
    \/ table_line
    \/ table_emit
    \/ bq_line
    \/ bq_emit
    \/ bq_render_nested
    \/ bq_nested_done
    \/ ul_skip_blank
    \/ ul_item
    \/ ul_nested
    \/ ul_emit
    \/ collect_ul_item
    \/ collect_ul_return
    \/ ol_item
    \/ ol_nested
    \/ ol_emit
    \/ collect_ol_item
    \/ collect_ol_return
    \/ html_line
    \/ html_emit
    \/ para_line
    \/ para_emit
    \/ finish

Next == Run \/ render_again

Spec == Init /\ [][Next]_vars

-----------------------------------------------------------------------------
(* render_inline as a state machine: text after each of its passes. *)

\* the characters of the texts given to render_inline
InlineChars == {Backtick, "*", "a", "<", "$"}

\* the texts: every sequence of up to MaxLen characters of InlineChars
InlineTexts == UNION {[1..n -> InlineChars] : n \in 0..MaxLen}

\* render_inline is called on a text (line 190)
InitInline ==
    /\ text \in InlineTexts
    /\ step = 0
    /\ lines = <<>>
    /\ pos = 0
    /\ output = <<>>
    /\ pc = "done"
    /\ loc = NoLocals
    /\ stack = <<>>
    /\ src = <<>>
    /\ starts = <<>>
    /\ reused = FALSE

\* the next pass of render_inline: text = re.sub(...) (lines 197-261)
inline_pass ==
    /\ step < NSteps
    /\ text' = InlineStep(step + 1, text)
    /\ step' = step + 1
    /\ UNCHANGED <<lines, pos, output, pc, loc, stack, src, starts, reused>>

NextInline == inline_pass

SpecInline == InitInline /\ [][NextInline]_vars


-----------------------------------------------------------------------------
(* The properties.  Lines are counted as the cursor counts them, from 0:   *)
(* line n of the renderer is lines[n + 1].                                  *)

\* the element a fragment ends with tells the block it renders
FragKind(frag) ==
    LET l == frag[Len(frag)]
    IN  CASE l = P_CLOSE -> "para"
          [] l = BQ_CLOSE -> "bq"
          [] l = UL_CLOSE -> "ul"
          [] l = OL_CLOSE -> "ol"
          [] l = TABLE_CLOSE -> "table"
          [] l \in {"</code></pre>", "</div>"} -> "code"
          [] l = "</code></section>" -> "math"
          [] l \in {"</h" \o Str(n) \o ">" : n \in 1..6} -> "heading"
          [] frag = HR_HTML -> "hr"
          [] OTHER -> "html"

\* the first line after line n of L that closes a math block, or the end
MathClose(L, n) ==
    LET closing == {j \in (n + 1)..(Len(L) - 1) : Strip(L[j + 1]) = <<"$", "$">>}
    IN  IF closing = {} THEN Len(L)
        ELSE CHOOSE j \in closing : \A k \in closing : j <= k

\* the first line from line n of L on that is not a table line, or the end
TableEnd(L, n) ==
    LET others == {j \in n..(Len(L) - 1) : ~IsTableStart(L[j + 1])}
    IN  IF others = {} THEN Len(L)
        ELSE CHOOSE j \in others : \A k \in others : j <= k

\* a block start that holds nothing to render: a math block whose formula
\* is blank, a table whose lines are all separator rows
EmptyBlock(L, s) ==
    CASE s.kind = "math" ->
             \A j \in (s.line + 1)..(MathClose(L, s.line) - 1) : IsBlank(L[j + 1])
      [] s.kind = "table" ->
             \A j \in s.line..(TableEnd(L, s.line) - 1) : IsSeparatorRow(L[j + 1])
      [] OTHER -> FALSE

\* the line after the last line of an empty block
EmptyBlockEnd(L, s) ==
    IF s.kind = "math" THEN Min(MathClose(L, s.line) + 1, Len(L))
    ELSE TableEnd(L, s.line)

\* the fragments are in source order
InSourceOrder ==
    /\ Len(src) = Len(output)
    /\ \A i \in 1..Len(src) : src[i].from < src[i].to /\ src[i].to <= pos
    /\ \A i, j \in 1..Len(src) : i < j => src[i].to <= src[j].from

\* the block starts are those of a scan of the lines: each is the first
\* line that is not blank after the block before it, of the kind the
\* priority rules give that line
StartsAreScanned(ends) ==
    \A k \in 1..Len(starts) :
        /\ starts[k].line < Len(lines)
        /\ BlockKind(lines[starts[k].line + 1]) = starts[k].kind
        /\ starts[k].kind # "blank"
        /\ LET from == IF k = 1 THEN 0 ELSE ends[k - 1]
           IN  /\ from <= starts[k].line
               /\ \A j \in from..(starts[k].line - 1) : IsBlank(lines[j + 1])

\* C1 as stated: when render returns, the fragments are in source order, and
\* there is one fragment for each block start of a scan of the lines, in the
\* order of the block starts.
C1_OneFragmentPerBlockStart ==
    (pc = "done") =>
        /\ InSourceOrder
        /\ Len(output) = Len(starts)
        /\ \A k \in 1..Len(starts) :
               /\ src[k].from = starts[k].line
               /\ FragKind(output[k]) = starts[k].kind
        /\ StartsAreScanned([k \in 1..Len(starts) |-> src[k].to])

\* C1 amended: whenever a renderer is at its dispatcher loop or has returned,
\* its fragments are in source order, and there is one fragment, of the
\* block's kind, for each block start of a scan of the lines consumed so far
\* that is not an empty math block or a table of separator rows only, in
\* the order of the block starts.
C1_SourceOrder ==
    (pc \in {"blocks", "done"}) =>
        LET full == {k \in 1..Len(starts) : ~EmptyBlock(lines, starts[k])}
            nth(k) == Cardinality({j \in full : j <= k})
        IN  /\ InSourceOrder
            /\ Len(output) = Cardinality(full)
            /\ \A k \in full :
                   /\ src[nth(k)].from = starts[k].line
                   /\ src[nth(k)].kind = starts[k].kind
                   /\ FragKind(output[nth(k)]) = starts[k].kind
            /\ StartsAreScanned([k \in 1..Len(starts) |->
                                    IF k \in full THEN src[nth(k)].to
                                    ELSE EmptyBlockEnd(lines, starts[k])])
            /\ pc = "done" => \A j \in (IF src = <<>> THEN 0 ELSE src[Len(src)].to)..(Len(lines) - 1) :
                                  \/ IsBlank(lines[j + 1])
                                  \/ \E k \in 1..Len(starts) :
                                         /\ k \notin full
                                         /\ starts[k].line <= j
                                         /\ j < EmptyBlockEnd(lines, starts[k])

\* render has returned the fragments of two blocks of different kinds that
\* came after an empty block
C1_Witness ==
    /\ pc = "done"
    /\ Len(starts) = 3
    /\ Len(output) = 2
    /\ src[1].kind # src[2].kind

Last(s) == s[Len(s)]

\* a step of a loop that stays in the loop: the dispatcher takes a blank
\* line, a heading or a thematic break, or a parser takes a line
LoopStep == pc' = pc /\ stack' = stack /\ pc \notin {"done", "crash"}

\* the number of '>' characters in the lines L
QuoteMarks(L) ==
    Cardinality({p \in UNION {{<<i, j>> : j \in DOMAIN L[i]} : i \in DOMAIN L} :
                    L[p[1]][p[2]] = ">"})

\* what is left of the steps between two lines taken: a loop that has taken
\* a line ranks above the dispatcher, which ranks above a loop just entered
Phase ==
    CASE pc \in {"done", "crash"} -> 0
      [] pc = "blocks" -> 3
      [] pc \in {"collect_ul", "collect_ol"} -> IF loc.sub_items # <<>> THEN 5 ELSE 1
      [] pc = "bq" -> IF pos > Last(starts).line THEN 5 ELSE 2
      [] OTHER -> IF pos > Last(starts).line THEN 4 ELSE 2

\* a bound on the steps left to a renderer at line p of L: six for a line,
\* as often as a quote in a quote can hold the line, the inner text of a
\* quote having fewer '>' than the lines it came from
LinesLeft(L, p) == 6 * (Len(L) - p) * (QuoteMarks(L) + 1)

\* a bound on the steps left to the renderers that wait for a sub-renderer
RECURSIVE Waiting(_)
Waiting(frames) ==
    IF frames = <<>> THEN 0
    ELSE LinesLeft(Head(frames).lines, Head(frames).pos) + 1 + Waiting(Tail(frames))

\* a bound on the steps left to the render call: the lines left, the lines
\* of the quote being collected, which a sub-renderer may have to render, and
\* the renderers that wait
Measure ==
    LinesLeft(lines, pos)
    + (IF pc = "bq" THEN 6 * Len(loc.bq_lines) * QuoteMarks(lines) ELSE 0)
    + Phase
    + Waiting(stack)

\* C2: render terminates on every input.  Every iteration of the dispatcher
\* loop and of a parser's inner loop moves the cursor forward by a line,
\* whenever control is back at the dispatcher loop the cursor is past the
\* first line of the block last handed to a parser, and every step of a
\* render call lowers a bound on the steps left to it that is a natural
\* number, so that the call reaches its return.
C2_Terminates ==
    /\ [][LoopStep => pos' = pos + 1]_vars
    /\ [](pc = "blocks" /\ starts # <<>> => pos > Last(starts).line)
    /\ [](Measure \in Nat /\ pc # "crash")
    /\ [][pc # "done" => Measure' < Measure]_vars
    /\ [](pc = "done" => pos = Len(lines))

\* render has returned after a list with a nested list, a blockquote with a
\* nested quote or a paragraph that took a line starting with '<!['
C2_Witness ==
    /\ pc = "done"
    /\ pos = Len(lines)
    /\ Len(lines) = MaxLines
    /\ \E i \in 1..Len(src) : src[i].kind \in {"ul", "ol", "bq"} /\ src[i].to - src[i].from >= 2
    /\ \E i \in 1..Len(src) :
           src[i].kind = "para" /\ StartsWith(lines[src[i].from + 1], <<"<", "!", "[">>)

\* C3: during a render pass the cursor never moves back and stays within
\* 0..len(lines), and _advance is never called with the cursor at the end
\* of the lines, in any parser and for any input.
C3_CursorInRange ==
    /\ [](pos \in 0..Len(lines))
    /\ [](pc # "crash")
    /\ [][pc # "done" /\ stack' = stack => pos' >= pos /\ lines' = lines]_vars

\* render has returned after a math block that the end of the input closed
C3_Witness ==
    /\ pc = "done"
    /\ pos = Len(lines)
    /\ src # <<>>
    /\ Last(src).kind = "math"
    /\ Last(src).to = Len(lines)
    /\ Strip(lines[Len(lines)]) # <<"$", "$">>

\* C4: a hand-off of the dispatcher to a block parser appends at most one
\* fragment: a renderer never holds more fragments than it has handed
\* blocks over, a parser that runs has not appended the fragment of its
\* block, a step appends one fragment at most, and the step that appends it
\* returns control to the dispatcher loop.
C4_OneFragmentPerHandOff ==
    /\ [](Len(output) <= Len(starts))
    /\ [](pc \notin {"blocks", "done"} => Len(output) < Len(starts))
    /\ [][pc # "done" /\ Len(stack') = Len(stack) /\ output' # output
            => /\ output' = Append(output, Last(output'))
               /\ pc' = "blocks"]_vars
    /\ [][pc # "done" /\ Len(stack') = Len(stack) /\ starts' # starts
            => /\ pc = "blocks"
               /\ starts' = Append(starts, Last(starts'))]_vars

\* render has returned one fragment for a list that holds a nested list,
\* and one for the block after it
C4_Witness ==
    /\ pc = "done"
    /\ Len(starts) = 2
    /\ Len(output) = 2
    /\ src[1].kind \in {"ul", "ol"}
    /\ src[1].to - src[1].from = 2
    /\ \E i \in DOMAIN output[1] : output[1][i] \in {UL_OPEN, OL_OPEN} /\ i > 1

\* C5: calls to render are independent.  A call on a renderer that has
\* rendered starts from the state a fresh renderer starts from (the lines of
\* the new text, the cursor at 0, no fragment, no local of a parser), so it
\* returns what a fresh renderer returns; a sub-renderer for a nested quote
\* starts fresh as well, leaves the renderers that wait as they are, and
\* when it returns the outer renderer has its own lines and cursor and its
\* own fragments with the one blockquote fragment appended.
C5_CallsIndependent ==
    /\ [][pc = "done" =>
            /\ \E md \in AgainInputs : lines' = Split(md, "\n")
            /\ pos' = 0 /\ output' = <<>> /\ pc' = "blocks"
            /\ loc' = NoLocals /\ stack' = <<>>]_vars
    /\ [][Len(stack') > Len(stack) =>
            /\ stack' = Append(stack, Last(stack'))
            /\ Last(stack').lines = lines
            /\ Last(stack').pos = pos
            /\ Last(stack').output = output
            /\ pos' = 0 /\ output' = <<>> /\ pc' = "blocks" /\ loc' = NoLocals]_vars
    /\ [][Len(stack') = Len(stack) => stack' = stack]_vars
    /\ [][Len(stack') < Len(stack) =>
            /\ stack = Append(stack', Last(stack))
            /\ lines' = Last(stack).lines
            /\ pos' = Last(stack).pos
            /\ output' = Append(Last(stack).output, Last(output'))
            /\ FragKind(Last(output')) = "bq"]_vars

\* a renderer that had rendered a text rendered a second text, with a quote
\* in a quote that a sub-renderer rendered, and has returned
C5_Witness ==
    /\ reused
    /\ pc = "done"
    /\ Len(output) = 2
    /\ src[1].kind = "bq"

\* no line of L matches a block-start pattern of the dispatcher
NoBlockStart(L) == \A i \in DOMAIN L : BlockKind(L[i]) \in {"blank", "para"}

\* the lines of L that are not blank
NonBlank(L) == {i \in DOMAIN L : ~IsBlank(L[i])}

\* the paragraph fragment around the inline transform of the lines i..j of
\* L, the lines joined by single spaces
ParagraphOf(L, i, j) ==
    <<P_OPEN>> \o render_inline(Join(SubSeq(L, i, j), <<" ">>)) \o <<P_CLOSE>>

\* C6 as stated: for an input in which no line matches a block-start
\* pattern, the output is exactly one paragraph fragment, which wraps the
\* inline transform of the whole input.
C6_OneParagraphOfWholeInput ==
    (pc = "done" /\ NoBlockStart(lines)) => output = <<ParagraphOf(lines, 1, Len(lines))>>

\* C6 amended: for an input in which no line matches a block-start pattern,
\* which has a line that is not blank and no blank line between two lines
\* that are not blank, the output is exactly one paragraph fragment, which
\* wraps the inline transform of the lines that are not blank joined by
\* single spaces.
C6_OneParagraph ==
    (/\ pc = "done"
     /\ NoBlockStart(lines)
     /\ NonBlank(lines) # {}
     /\ \A i, j \in NonBlank(lines) : \A k \in i..j : k \in NonBlank(lines))
    => LET first == CHOOSE i \in NonBlank(lines) : \A k \in NonBlank(lines) : i <= k
           last == CHOOSE j \in NonBlank(lines) : \A k \in NonBlank(lines) : k <= j
       IN  output = <<ParagraphOf(lines, first, last)>>

\* render has returned the paragraph of a text of two lines with emphasis
\* that spans them, after a blank line
C6_Witness ==
    /\ pc = "done"
    /\ NoBlockStart(lines)
    /\ Len(lines) = 3
    /\ NonBlank(lines) = {2, 3}
    /\ Len(output) = 1
    /\ \E k \in DOMAIN output[1] : output[1][k] = "</em>"

\* the contents of the code elements of the code-span pass in t: for each
\* opening tag of a code span, the text up to the next closing tag
CodeOpen == <<"<code style=\"">> \o STYLES_codespan \o <<"\">">>

CodeContents(t) ==
    LET opens == {i \in 1..(Len(t) - Len(CodeOpen) + 1) :
                     SubSeq(t, i, i + Len(CodeOpen) - 1) = CodeOpen}
        close(i) == CHOOSE j \in (i + Len(CodeOpen))..(Len(t) + 1) :
                        /\ j = Len(t) + 1 \/ t[j] = "</code>"
                        /\ \A k \in (i + Len(CodeOpen))..(j - 1) : t[k] # "</code>"
    IN  {SubSeq(t, i + Len(CodeOpen), close(i) - 1) : i \in opens}

\* C7: the content of a code span is rendered with '<', '>' and '&'
\* escaped, and once the code-span pass has run no later pass (image, link,
\* inline math, bold-italic, bold, italic, strikethrough) changes the text
\* inside a code element.
C7_CodeSpanUntouched ==
    /\ [](step >= 1 => \A c \in CodeContents(text) :
                           \A k \in DOMAIN c : c[k] \notin {"<", ">", "&"})
    /\ [][step >= 1 => CodeContents(text') = CodeContents(text)]_vars

\* the lines are a bullet item, a deeper bullet item and a sibling of the
\* first item
NestedShape(L) ==
    /\ Len(L) = 3
    /\ \A i \in 1..3 : IsUlItem(L[i])
    /\ Indent(L[1]) = 0 /\ Indent(L[2]) > 0 /\ Indent(L[3]) = 0

\* the number of item elements open at element n of a list fragment
OpenItems(frag, n) ==
    Cardinality({i \in 1..(n - 1) : frag[i] = LI_OPEN})
    - Cardinality({i \in 1..(n - 1) : frag[i] = LI_CLOSE})

\* the places of a list's opening tag in a fragment
ListOpens(frag) == {i \in DOMAIN frag : frag[i] \in {UL_OPEN, OL_OPEN}}

\* C8: for a list item, a deeper item and a sibling of the first item, the
\* output is one list with two item elements at its top level, and the
\* nested list is inside the element of the first item.
C8_NestedListInsideItem ==
    (pc = "done" /\ NestedShape(lines))
    => /\ Len(output) = 1
       /\ Cardinality(ListOpens(output[1])) = 2
       /\ Cardinality({i \in DOMAIN output[1] :
                          output[1][i] = LI_OPEN /\ OpenItems(output[1], i) = 0}) = 2
       /\ \A n \in ListOpens(output[1]) : n > 1 => OpenItems(output[1], n) = 1

\* the lines are a table: a header row, a divider row, and data rows
TableShape(L) ==
    /\ Len(L) >= 2
    /\ \A i \in DOMAIN L : IsTableStart(L[i])
    /\ ~IsSeparatorRow(L[1])
    /\ Len(L[2]) >= 3 /\ \A k \in 2..(Len(L[2]) - 1) : L[2][k] = "-"

\* C9: a table of a header row, a divider row and N data rows renders a
\* header section of one row and a body of N rows.
C9_BodyRows ==
    (pc = "done" /\ TableShape(lines))
    => /\ Len(output) = 1
       /\ Cardinality({i \in DOMAIN output[1] : output[1][i] = THEAD_OPEN}) = 1
       /\ Cardinality({i \in DOMAIN output[1] : output[1][i] = TR_OPEN}) = 1 + (Len(lines) - 2)

\* the lines are an ordered-list item, a deeper list item of either kind
\* and a sibling of the first item
OrderedShape(L) ==
    /\ Len(L) = 3
    /\ IsOlItem(L[1]) /\ Indent(L[1]) = 0
    /\ (IsOlItem(L[2]) \/ IsUlItem(L[2])) /\ Indent(L[2]) > 0
    /\ IsOlItem(L[3]) /\ Indent(L[3]) = 0

\* C10: the k-th sibling of an ordered list is rendered with ordinal k,
\* whatever number its line has and whatever nested list is between the
\* siblings: the two siblings around a nested list are items 1 and 2 of one
\* list.
C10_SiblingOrdinals ==
    (pc = "done" /\ OrderedShape(lines))
    => /\ Len(output) = 1
       /\ \E i, j \in DOMAIN output[1] :
              /\ i < j
              /\ output[1][i] = "1. " /\ OpenItems(output[1], i) = 1
              /\ output[1][j] = "2. " /\ OpenItems(output[1], j) = 1
              /\ \E n \in ListOpens(output[1]) : i < n /\ n < j

\* the first line after line n of L whose trimmed text is the closing fence,
\* or the end of L
FenceClose(L, n) ==
    LET closing == {j \in (n + 1)..(Len(L) - 1) :
                        Strip(L[j + 1]) = <<Backtick, Backtick, Backtick>>}
    IN  IF closing = {} THEN Len(L)
        ELSE CHOOSE j \in closing : \A k \in closing : j <= k

\* the text between the opening and the closing tag of a code fragment
CodeBody(frag) == SubSeq(frag, 4, Len(frag) - 1)

\* C11: a fenced code block takes every line after its opening fence up to
\* the first line whose trimmed text is the closing fence, or up to the end
\* of the input; it gives one code fragment that holds these lines in order,
\* and none of them is handed to another parser.
C11_CodeBlockTakesAllLines ==
    /\ (pc = "code") =>
           /\ loc.code_lines = SubSeq(lines, block_start + 2, pos)
           /\ pos <= FenceClose(lines, block_start)
    /\ (pc \in {"blocks", "done"}) =>
           \A k \in 1..Len(src) :
               (src[k].kind = "code") =>
                   LET open == src[k].from
                       close == FenceClose(lines, open)
                   IN  /\ IsFenceStart(lines[open + 1])
                       /\ src[k].to = Min(close + 1, Len(lines))
                       /\ FragKind(output[k]) = "code"
                       /\ CodeBody(output[k])
                              = ReplaceDoubleSpace(escape(Join(SubSeq(lines, open + 2, close), <<"\n">>)))
                       /\ \A s \in 1..Len(starts) :
                              ~(open < starts[s].line /\ starts[s].line < src[k].to)
                       /\ Cardinality({j \in 1..Len(src) : src[j].from = open}) = 1

\* render has returned the one fragment of a fence that is never closed, with
\* a heading line and a list line in it
C11_Witness ==
    /\ pc = "done"
    /\ Len(lines) = 3
    /\ Len(output) = 1
    /\ src[1] = [kind |-> "code", from |-> 0, to |-> 3]
    /\ IsHeadingStart(lines[2])
    /\ IsUlItem(lines[3])

\* line j of L (counted from 0) belongs to a quote that is being read: it
\* starts with '>', or it is blank and the line after it starts with '>'
InQuote(L, j) ==
    \/ IsQuoteStart(L[j + 1])
    \/ /\ IsBlank(L[j + 1])
       /\ j + 1 < Len(L)
       /\ IsQuoteStart(L[j + 2])

\* C12: a blank line between two lines that start with '>' does not end the
\* blockquote, and a blank line whose next line does not start with '>', or
\* that is the last line, ends it and is left at the cursor: a blockquote
\* fragment spans the lines from its first line up to the first line that is
\* neither a '>' line nor a blank line before a '>' line, and when the quote
\* holds no nested quote its lines, the blank ones included, are in one
\* paragraph.
C12_BlankInsideQuote ==
    (pc \in {"blocks", "done"}) =>
        \A k \in 1..Len(src) :
            (src[k].kind = "bq") =>
                LET from == src[k].from
                    to == src[k].to
                    inner == [j \in 1..(to - from) |->
                                  IF IsBlank(lines[from + j]) THEN <<>>
                                  ELSE StripQuoteMarker(lines[from + j])]
                IN  /\ \A j \in from..(to - 1) : InQuote(lines, j)
                    /\ to < Len(lines) => ~InQuote(lines, to)
                    /\ FragKind(output[k]) = "bq"
                    /\ ~HasNestedQuote(inner) =>
                           output[k] = <<BQ_OPEN, "<p style=\"" \o STYLES_blockquote_p \o "\">">>
                                       \o render_inline(Strip(Join(inner, <<"\n">>)))
                                       \o <<"</p>", BQ_CLOSE>>

\* render has returned the one fragment of a quote of two '>' lines with a
\* blank line between them, the two lines in one paragraph
C12_Witness ==
    /\ pc = "done"
    /\ Len(lines) = 3
    /\ IsQuoteStart(lines[1]) /\ IsBlank(lines[2]) /\ IsQuoteStart(lines[3])
    /\ Len(output) = 1
    /\ src[1] = [kind |-> "bq", from |-> 0, to |-> 3]
    /\ Cardinality({i \in DOMAIN output[1] : output[1][i] = "</p>"}) = 1

\* C13: a blockquote whose '>' lines carry nothing after the mark yields no
\* fragment: every blockquote fragment comes from lines of which at least
\* one has content after its mark.
C13_EmptyQuoteNoFragment ==
    (pc \in {"blocks", "done"}) =>
        \A k \in 1..Len(src) :
            (src[k].kind = "bq") =>
                \E j \in src[k].from..(src[k].to - 1) :
                    ~IsBlank(StripQuoteMarker(lines[j + 1]))

\* C14: a math block whose formula is empty after trimming and a table that
\* has no row each take their lines and append no fragment: once control is
\* back at the dispatcher the cursor is past the lines of the block, no
\* fragment comes from them, and the next block starts after them.
C14_EmptyBlockNoFragment ==
    (pc \in {"blocks", "done"}) =>
        \A k \in 1..Len(starts) :
            (starts[k].kind \in {"math", "table"} /\ EmptyBlock(lines, starts[k])) =>
                LET first == starts[k].line
                    end == EmptyBlockEnd(lines, starts[k])
                IN  /\ first < end
                    /\ end <= pos
                    /\ \A i \in 1..Len(src) : src[i].to <= first \/ end <= src[i].from
                    /\ k < Len(starts) => end <= starts[k + 1].line

\* render has returned no fragment for a math block with no formula
\* followed by a table of a separator row only
C14_Witness ==
    /\ pc = "done"
    /\ Len(lines) = 3
    /\ Len(starts) = 2
    /\ starts[1] = [kind |-> "math", line |-> 0]
    /\ starts[2] = [kind |-> "table", line |-> 2]
    /\ pos = 3
    /\ output = <<>>

\* C15: the inline pipeline is idempotent on its own output: once the eight
\* passes have run on a text, running render_inline on the result gives the
\* result back.
C15_InlineIdempotent ==
    (step = NSteps) => render_inline(text) = text

\* fragment k of the renderer is a heading of level 1
IsH1(k) ==
    /\ src[k].kind = "heading"
    /\ RunLen(lines[src[k].from + 1], {"#"}) = 1

\* C16: of the level-1 headings of a document the first has the
\* no-top-margin override added to its style, and every later one has the
\* level-1 style as it is.
C16_OnlyFirstH1NoTopMargin ==
    (pc \in {"blocks", "done"}) =>
        \A k \in 1..Len(src) :
            IsH1(k) =>
                output[k][1] = "<h1 style=\""
                               \o (IF \E j \in 1..(k - 1) : IsH1(j)
                                   THEN STYLES_h1
                                   ELSE STYLES_h1 \o NO_TOP_MARGIN)
                               \o "\">"

\* the opening tags a heading of level n can have
HeadingOpens(n) ==
    {"<h" \o Str(n) \o " style=\"" \o HeadingStyle(n) \o more_style \o "\">" :
         more_style \in {"", NO_TOP_MARGIN}}

\* the closing tags of the six heading levels
HeadingCloses == {"</h" \o Str(n) \o ">" : n \in 1..6}

\* C17: a heading line is consumed alone: its fragment comes from that one
\* line and is one element of the level given by the number of '#' at the
\* start of the line, which is 1 to 6; text after a blank line that follows
\* the heading is a paragraph fragment of its own; a line with seven or more
\* '#' is never rendered as a heading.
C17_HeadingAlone ==
    (pc \in {"blocks", "done"}) =>
        /\ \A k \in 1..Len(src) :
               (src[k].kind = "heading") =>
                   LET line == lines[src[k].from + 1]
                       n == RunLen(line, {"#"})
                   IN  /\ src[k].to = src[k].from + 1
                       /\ n \in 1..6
                       /\ output[k][1] \in HeadingOpens(n)
                       /\ Last(output[k]) = "</h" \o Str(n) \o ">"
                       /\ Cardinality({i \in DOMAIN output[k] : output[k][i] \in HeadingCloses}) = 1
                       /\ (/\ src[k].from + 2 < pos
                           /\ IsBlank(lines[src[k].from + 2])
                           /\ BlockKind(lines[src[k].from + 3]) = "para")
                          => /\ k < Len(src)
                             /\ src[k + 1].kind = "para"
                             /\ src[k + 1].from = src[k].from + 2
                             /\ FragKind(output[k + 1]) = "para"
        /\ \A k \in 1..Len(src) :
               (RunLen(lines[src[k].from + 1], {"#"}) >= 7) =>
                   /\ src[k].kind # "heading"
                   /\ \A i \in DOMAIN output[k] : output[k][i] \notin HeadingCloses

\* render has returned a heading of level 6 for a line of six '#' and a
\* paragraph for a line of seven
C17_Witness ==
    /\ pc = "done"
    /\ Len(lines) = 2
    /\ RunLen(lines[1], {"#"}) = 6
    /\ RunLen(lines[2], {"#"}) = 7
    /\ Len(output) = 2
    /\ Last(output[1]) = "</h6>"
    /\ FragKind(output[2]) = "para"

\* the parsers in the order in which the dispatcher tries them
ParserOrder == <<"heading", "code", "math", "table", "bq", "ul", "ol", "hr", "html", "para">>

\* the start pattern of a parser matches the line
Matches(kind, line) ==
    CASE kind = "heading" -> IsHeadingStart(line)
      [] kind = "code" -> IsFenceStart(line)
      [] kind = "math" -> IsMathStart(line)
      [] kind = "table" -> IsTableStart(line)
      [] kind = "bq" -> IsQuoteStart(line)
      [] kind = "ul" -> IsUlItem(line)
      [] kind = "ol" -> IsOlItem(line)
      [] kind = "hr" -> IsThematicBreak(line)
      [] kind = "html" -> IsHtmlStart(line)
      [] OTHER -> TRUE

\* the first parser of the order whose start pattern matches the line
FirstMatch(line) ==
    LET i == CHOOSE i \in DOMAIN ParserOrder :
                 /\ Matches(ParserOrder[i], line)
                 /\ \A j \in 1..(i - 1) : ~Matches(ParserOrder[j], line)
    IN  ParserOrder[i]

\* the parsers whose loop can be the one that runs: a list parser is the
\* caller of a helper that collects a nested list
Running ==
    IF pc \in {"collect_ul", "collect_ol"} THEN {"ul", "ol"} ELSE {pc}

\* C18: the dispatcher hands every line at its cursor that is not blank to
\* exactly one parser, the first of the order heading, fenced code, block
\* math, table, blockquote, unordered list, ordered list, thematic break,
\* raw HTML, paragraph whose start pattern matches the line, and it skips a
\* blank line without a fragment: every hand-off is at a line that is not
\* blank and to the first match, no line is handed off twice, the parser
\* that runs is the one of the last hand-off, and every fragment is of the
\* kind of the one hand-off at its first line.
C18_DispatchInOrder ==
    /\ \A k \in 1..Len(starts) :
           /\ ~IsBlank(lines[starts[k].line + 1])
           /\ starts[k].kind = FirstMatch(lines[starts[k].line + 1])
    /\ \A i, j \in 1..Len(starts) : i < j => starts[i].line < starts[j].line
    /\ (pc \notin {"blocks", "done", "crash"}) =>
           /\ starts # <<>>
           /\ Last(starts).kind \in Running
    /\ (pc \in {"blocks", "done"}) =>
           \A k \in 1..Len(src) :
               /\ ~IsBlank(lines[src[k].from + 1])
               /\ FragKind(output[k]) = src[k].kind
               /\ Cardinality({s \in 1..Len(starts) : starts[s].line = src[k].from}) = 1
               /\ \E s \in 1..Len(starts) :
                      starts[s] = [kind |-> src[k].kind, line |-> src[k].from]

\* render has returned after its dispatcher skipped a blank line, took a
\* thematic break itself and handed a line to the raw HTML parser
C18_Witness ==
    /\ pc = "done"
    /\ Len(lines) = 3
    /\ IsBlank(lines[1])
    /\ starts = <<[kind |-> "hr", line |-> 1], [kind |-> "html", line |-> 2]>>
    /\ Len(output) = 2
    /\ output[1] = HR_HTML

\* C19: the paragraph parser stops before every line that the dispatcher
\* would hand to another parser, the raw-HTML test being the same in both:
\* every line of a paragraph fragment is a line that the dispatcher, with
\* the line at its cursor, would hand to the paragraph parser.
C19_ParagraphStopsAtBlockStart ==
    (pc \in {"blocks", "done"}) =>
        \A k \in 1..Len(src) :
            (src[k].kind = "para") =>
                \A j \in src[k].from..(src[k].to - 1) :
                    BlockKind(lines[j + 1]) = "para"

\* the line is an item of a list of the kind: a bullet item or a numbered item
IsItemOf(kind, line) == IF kind = "ul" THEN IsUlItem(line) ELSE IsOlItem(line)

\* C20: in the unordered and in the ordered list parser a blank line whose
\* next line is a list item at or beyond the baseline indentation does not
\* end the list, and any other blank line ends it: no list fragment ends
\* at a blank line that is followed by an item of the list's kind, and a
\* blank line inside a list fragment is followed by such an item.
C20_BlankInsideList ==
    (pc \in {"blocks", "done"}) =>
        \A k \in 1..Len(src) :
            (src[k].kind \in {"ul", "ol"}) =>
                /\ ~(/\ src[k].to + 1 < Len(lines)
                     /\ IsBlank(lines[src[k].to + 1])
                     /\ IsItemOf(src[k].kind, lines[src[k].to + 2]))
                /\ \A j \in src[k].from..(src[k].to - 1) :
                       IsBlank(lines[j + 1]) =>
                           /\ j + 1 < src[k].to
                           /\ IsItemOf(src[k].kind, lines[j + 2])

\* the line is a list item of either marker style, deeper than the baseline
\* of a list parser called by the dispatcher, which is 0
IsDeeperItem(line) == (IsUlItem(line) \/ IsOlItem(line)) /\ Indent(line) > 0

\* C21: inside a list of either kind a list-item line of either marker style
\* that is deeper than the baseline starts a nested list inside the list
\* fragment, of the kind of the line's marker: no list fragment ends before
\* such a line, and the fragment holds, after its own opening tag, the
\* opening tag of a list of the marker's kind for every such line it took.
C21_DeeperItemNests ==
    (pc \in {"blocks", "done"}) =>
        \A k \in 1..Len(src) :
            (src[k].kind \in {"ul", "ol"}) =>
                /\ ~(src[k].to < Len(lines) /\ IsDeeperItem(lines[src[k].to + 1]))
                /\ \A j \in src[k].from..(src[k].to - 1) :
                       IsDeeperItem(lines[j + 1]) =>
                           \E i \in 2..Len(output[k]) :
                               output[k][i] = IF IsUlItem(lines[j + 1]) THEN UL_OPEN ELSE OL_OPEN

\* the lines are three list items at three increasing levels of indentation
ThreeLevels(L) ==
    /\ Len(L) = 3
    /\ \A i \in 1..3 : IsUlItem(L[i]) \/ IsOlItem(L[i])
    /\ Indent(L[1]) = 0
    /\ Indent(L[1]) < Indent(L[2])
    /\ Indent(L[2]) < Indent(L[3])

\* the number of list containers open at element n of a fragment
ListDepth(frag, n) ==
    Cardinality({i \in 1..n : frag[i] \in {UL_OPEN, OL_OPEN}})
    - Cardinality({i \in 1..n : frag[i] \in {UL_CLOSE, OL_CLOSE}})

\* C22: lists nest to any depth: list items at three increasing levels of
\* indentation render as three list containers, each inside the one of the
\* level above, so that the deepest item is inside three lists.
C22_ThreeLevelsNest ==
    (pc = "done" /\ ThreeLevels(lines))
    => /\ Len(output) = 1
       /\ Cardinality(ListOpens(output[1])) = 3
       /\ \E n \in DOMAIN output[1] :
              output[1][n] = LI_OPEN /\ ListDepth(output[1], n) = 3

\* the number of rows, header row included, that a table fragment renders
RenderedRows(frag) == Cardinality({i \in DOMAIN frag : frag[i] = TR_OPEN})

\* C23: in a table only the second consumed line can be discarded as the
\* divider: a table fragment renders as many rows as it consumed lines, less
\* one when its second line is a separator row, whatever the other lines
\* consist of.
C23_OnlySecondLineIsDivider ==
    (pc \in {"blocks", "done"}) =>
        \A k \in 1..Len(src) :
            (src[k].kind = "table") =>
                LET consumed == src[k].to - src[k].from
                    divider == consumed >= 2 /\ IsSeparatorRow(lines[src[k].from + 2])
                IN  RenderedRows(output[k]) = IF divider THEN consumed - 1 ELSE consumed

\* the trimmed line without one leading and one trailing pipe
WithoutEdgePipes(line) ==
    LET t == Strip(line)
        l == IF CharAt(t, 1) = "|" THEN Drop(t, 1) ELSE t
    IN  IF l # <<>> /\ Last(l) = "|" THEN Take(l, Len(l) - 1) ELSE l

\* the cells of the header row of a table fragment
HeaderCells(frag) ==
    Cardinality({i \in DOMAIN frag : frag[i] = "<th style=\"" \o STYLES_th \o "\">"})

\* C24: the cells of a table row are what is between the pipes of the
\* trimmed line once exactly one leading and one trailing pipe are removed,
\* empty cells at the edges included: a header row has as many cells as the
\* line has pipes left, plus one.
C24_OnePipeTrimmed ==
    (pc \in {"blocks", "done"}) =>
        \A k \in 1..Len(src) :
            (src[k].kind = "table" /\ ~IsSeparatorRow(lines[src[k].from + 1])) =>
                LET rest == WithoutEdgePipes(lines[src[k].from + 1])
                IN  HeaderCells(output[k])
                        = Cardinality({i \in DOMAIN rest : rest[i] = "|"}) + 1

\* C25: for every line the blockquote parser takes as a '>' line, lines with
\* whitespace before the mark included, the one '>' at its start and at
\* most one space after it are removed before the content is rendered, so
\* that the mark is not in the rendered text: the fragment of a quote whose
\* lines hold no '>' other than their mark has no '>' character as text.
C25_MarkerRemoved ==
    (pc \in {"blocks", "done"}) =>
        \A k \in 1..Len(src) :
            (/\ src[k].kind = "bq"
             /\ \A j \in src[k].from..(src[k].to - 1) :
                    IsBlank(lines[j + 1]) \/ QuoteMarks(<<lines[j + 1]>>) = 1)
            => \A i \in DOMAIN output[k] : output[k][i] # ">"


\* the number of '>' marks in the run of marks and blanks that opens a line
LeadingMarks(line) ==
    Cardinality({i \in 1..RunLen(line, WS \cup {">"}) : line[i] = ">"})

\* the lines of the document that render was first called on
RootLines == IF stack = <<>> THEN lines ELSE stack[1].lines

\* the largest number of leading marks on a line of L
MaxMarks(L) ==
    IF L = <<>> THEN 0
    ELSE CHOOSE m \in {LeadingMarks(L[i]) : i \in DOMAIN L} :
             \A i \in DOMAIN L : LeadingMarks(L[i]) <= m

\* the lines given to the sub-renderer that frame n of the stack waits for
InnerLines(n) == IF n < Len(stack) THEN stack[n + 1].lines ELSE lines

\* the lines of the quote that frame n of the stack has read, its marks
\* taken off as _parse_blockquote takes them off
QuoteContent(n) ==
    LET outer == stack[n]
        from == outer.starts[Len(outer.starts)].line
    IN  [j \in 1..(outer.pos - from) |->
             IF IsBlank(outer.lines[from + j]) THEN <<>>
             ELSE StripQuoteMarker(outer.lines[from + j])]

\* how many elements of a fragment are the chunk c
Chunks(frag, c) == Cardinality({i \in DOMAIN frag : frag[i] = c})

\* C26: a quote whose content, its marks taken off, still has a line that
\* starts with '>' is rendered by a sub-renderer and spliced inside the one
\* outer blockquote, the section that wraps the inner rendering removed.
\* Every sub-renderer works on the lines of the quote that called it, one
\* mark taken off every line that starts with one, so the number of
\* renderers waiting is below the largest number of leading marks on a line
\* of the document; a blockquote fragment opens and closes as many
\* blockquotes as each other, more than one exactly when its content holds a
\* nested quote, and carries neither tag of the container section.
C26_NestedQuoteMirrorsSource ==
    /\ stack # <<>> => Len(stack) < MaxMarks(RootLines)
    /\ \A n \in 1..Len(stack) :
           /\ InnerLines(n) = QuoteContent(n)
           /\ HasNestedQuote(QuoteContent(n))
           /\ MaxMarks(InnerLines(n)) < MaxMarks(stack[n].lines)
           /\ LET outer == stack[n]
                  from == outer.starts[Len(outer.starts)].line
              IN  \A j \in 1..(outer.pos - from) :
                      CharAt(outer.lines[from + j], 1) = ">" =>
                          LeadingMarks(InnerLines(n)[j])
                              = LeadingMarks(outer.lines[from + j]) - 1
    /\ (pc \in {"blocks", "done"}) =>
           \A k \in 1..Len(src) :
               (src[k].kind = "bq") =>
                   LET frag == output[k]
                       content == [j \in 1..(src[k].to - src[k].from) |->
                                       IF IsBlank(lines[src[k].from + j]) THEN <<>>
                                       ELSE StripQuoteMarker(lines[src[k].from + j])]
                   IN  /\ frag[1] = BQ_OPEN
                       /\ frag[Len(frag)] = BQ_CLOSE
                       /\ Chunks(frag, BQ_OPEN) = Chunks(frag, BQ_CLOSE)
                       /\ (Chunks(frag, BQ_OPEN) > 1) = HasNestedQuote(content)
                       /\ Chunks(frag, CONTAINER_OPEN) = 0
                       /\ Chunks(frag, "</section>") = 0

\* render has returned the one fragment of the line '>>a': a blockquote
\* inside a blockquote, rendered by a sub-renderer that has returned
C26_Witness ==
    /\ pc = "done"
    /\ lines = << <<">", ">", "a">> >>
    /\ Len(output) = 1
    /\ src[1].kind = "bq"
    /\ Chunks(output[1], BQ_OPEN) = 2
    /\ output[1][2] = BQ_OPEN


\* line j of L (counted from 0), a line after the first of a raw HTML block,
\* is absorbed by the block: it is not blank, or the line after it starts
\* with '<'
InHtml(L, j) ==
    \/ ~IsBlank(L[j + 1])
    \/ /\ j + 1 < Len(L)
       /\ IsHtmlLine(L[j + 2])

\* C27: a raw HTML block starts at a line that begins with '<' (and not
\* with '<!['), absorbs every following line that is not blank, whatever its
\* syntax, and every blank line whose next line begins with '<', and ends at
\* the first blank line whose next line does not begin with '<' or at the end
\* of the input; it emits exactly one fragment, the consumed lines in order
\* joined by newlines, not escaped and with no inline markup applied.
C27_HtmlBlockVerbatim ==
    (pc \in {"blocks", "done"}) =>
        /\ \A k \in 1..Len(src) :
               (src[k].kind = "html") =>
                   LET from == src[k].from
                       to == src[k].to
                   IN  /\ from < to
                       /\ IsHtmlStart(lines[from + 1])
                       /\ \A j \in (from + 1)..(to - 1) : InHtml(lines, j)
                       /\ to < Len(lines) =>
                              /\ IsBlank(lines[to + 1])
                              /\ ~InHtml(lines, to)
                       /\ output[k] = Join(SubSeq(lines, from + 1, to), <<"\n">>)
        /\ \A k \in 1..Len(starts) :
               (starts[k].kind = "html") =>
                   Cardinality({n \in 1..Len(src) :
                                    src[n].from = starts[k].line}) = 1

\* render has returned the one fragment of a raw HTML block that absorbed a
\* heading line and ended at the blank last line: the heading's text is in
\* the fragment as it was written
C27_Witness ==
    /\ pc = "done"
    /\ Len(lines) = 3
    /\ IsHtmlStart(lines[1]) /\ IsHeadingStart(lines[2]) /\ IsBlank(lines[3])
    /\ Len(output) = 1
    /\ src[1] = [kind |-> "html", from |-> 0, to |-> 2]
    /\ output[1] = lines[1] \o <<"\n">> \o lines[2]


\* the tag that opens the fallback text of an inline formula
FallbackOpen == "<code style=\"font-style: italic; color: #FA5151;\">"

\* the fallback texts of the inline formulas of a text: what stands between
\* the opening tag of a fallback and the next closing tag of a code element
FallbackTexts(t) ==
    LET opens == {i \in DOMAIN t : t[i] = FallbackOpen}
        close(i) == CHOOSE j \in (i + 1)..(Len(t) + 1) :
                        /\ j = Len(t) + 1 \/ t[j] = "</code>"
                        /\ \A k \in (i + 1)..(j - 1) : t[k] # "</code>"
    IN  {SubSeq(t, i + 1, close(i) - 1) : i \in opens}

\* the elements that the code-span pass and the inline-math pass have put in
\* a text, each from its opening tag to its closing tag
EmittedElements(t) ==
    LET codes == {i \in 1..(Len(t) - Len(CodeOpen) + 1) :
                     SubSeq(t, i, i + Len(CodeOpen) - 1) = CodeOpen}
        spans == {i \in DOMAIN t : t[i] = replace_inline_math(<<>>)[1]}
        close(i, tag) == CHOOSE j \in i..(Len(t) + 1) :
                             /\ j = Len(t) + 1 \/ t[j] = tag
                             /\ \A k \in i..(j - 1) : t[k] # tag
    IN  {SubSeq(t, i, close(i, "</code>")) : i \in {c \in codes : close(c, "</code>") <= Len(t)}}
        \cup {SubSeq(t, i, close(i, "</span>")) : i \in {s \in spans : close(s, "</span>") <= Len(t)}}

\* C28: markup emitted by an earlier pass is never altered by a later pass:
\* an element that the code-span pass or the inline-math pass has put in the
\* text is in the text after every later pass exactly as it was emitted, and
\* once the inline-math pass has run the fallback texts of the formulas stay
\* what they are.
C28_EmittedMarkupKept ==
    /\ [][\A e \in EmittedElements(text) : e \in EmittedElements(text')]_vars
    /\ [][step >= 4 => FallbackTexts(text') = FallbackTexts(text)]_vars


\* C30: a line whose trimmed text starts with "$$" and that the dispatcher
\* comes to always opens a math block; the block runs to the first later
\* line whose trimmed text is exactly "$$", or to the end of the input;
\* no line in between is dispatched as a block or reaches another fragment;
\* and the fragment of the block, if its formula is not blank, is the
\* formula of the lines in between only, nothing of the opening line, even
\* when the opening line itself ends with "$$".
C30_MathBlockSpan ==
    /\ \A k \in 1..Len(starts) :
           IsMathStart(lines[starts[k].line + 1]) <=> starts[k].kind = "math"
    /\ (pc = "math") => pos <= MathClose(lines, Last(starts).line)
    /\ (pc \in {"blocks", "done"}) =>
           \A k \in 1..Len(starts) :
               (starts[k].kind = "math") =>
                   LET first == starts[k].line
                       close == MathClose(lines, first)
                       end == Min(close + 1, Len(lines))
                       formula == Strip(Join(SubSeq(lines, first + 2, close), <<"\n">>))
                       mine == {i \in 1..Len(src) : src[i].from = first}
                   IN  /\ end <= pos
                       /\ k < Len(starts) => end <= starts[k + 1].line
                       /\ \A i \in 1..Len(src) :
                              i \in mine \/ src[i].to <= first \/ end <= src[i].from
                       /\ \A i \in mine :
                              /\ src[i] = [kind |-> "math", from |-> first, to |-> end]
                              /\ output[i] = math_html(formula)
                       /\ Cardinality(mine) = IF formula = <<>> THEN 0 ELSE 1

\* render has returned the one fragment of a math block opened by the line
\* "$$a$$" and ended by the end of the input: its formula is the heading
\* line that follows, and nothing of the opening line
C30_Witness ==
    /\ pc = "done"
    /\ Len(lines) = 2
    /\ lines[1] = <<"$", "$", "a", "$", "$">>
    /\ IsHeadingStart(lines[2])
    /\ starts = << [kind |-> "math", line |-> 0] >>
    /\ Len(output) = 1
    /\ output[1] = math_html(lines[2])


\* C29: the document is split into lines with its line endings normalised:
\* no line of the renderer ends with a carriage return, and no fragment
\* carries a carriage return, so that a text with CRLF line endings gives
\* the fragments of the same text with LF line endings.
C29_LineEndingsNormalised ==
    /\ \A i \in DOMAIN lines : \A n \in DOMAIN lines[i] : lines[i][n] # "\r"
    /\ \A k \in DOMAIN output : \A n \in DOMAIN output[k] : output[k][n] # "\r"

=============================================================================
